---- MODULE Spec2Model ----
(***************************************************************************)
(* Model of the gateway query engine of the typescript toolkit:           *)
(*   - Utils.ts: divideInBatches, withMaxLoops                             *)
(*   - GatewayProcessor.ts: the fan-out methods (getResourcesInformation,  *)
(*     getNftOwners, getNonFungibleItemsFromIds), the two-stage paginated  *)
(*     reads (getNonFungibleResourcesHeldBy, getNonFungibleIdsHeldBy) and  *)
(*     the cursor loops, submitManifest;                                   *)
(*   - Utils.ts: parseNonFungibleData;                                     *)
(*   - ManifestBuilder: StringManifestBuilder;                             *)
(*   - Types: NFT, NFTSet, NFTMap;                                         *)
(*   - WalletInteractor: WalletInterface.sendTransaction.                  *)
(* Each part of the program has its own specification over the same        *)
(* variables; the variables a specification does not use stay at their     *)
(* idle values.                                                            *)
(***************************************************************************)
EXTENDS Integers, Sequences, FiniteSets, TLC

VARIABLES
  \* ---- withMaxLoops (Utils.ts) ----
  wml_pc,        \* "idle" | "try" | "wait" | "returned" | "thrown"
  max_loops,     \* the max_loops argument
  loop_count,    \* the local loop_count
  succeedAt,     \* toRun: number of the attempt that succeeds (0: never)
  calls,         \* number of invocations of toRun so far
  wml_result,    \* value returned to the caller (0: none)
  wml_error,     \* error raised to the caller (0: none)
  wml_events,    \* what the invocation did, in order: "attempt", "wait", "log"
  \* ---- divideInBatches (Utils.ts) ----
  dib_pc,        \* "idle" | "called" | "done"
  collection,    \* the collection argument
  collection0,   \* the collection as it was handed in
  batchSize,     \* the batchSize argument
  batches,       \* the returned batches
  \* ---- GatewayProcessor (GatewayProcessor.ts) and the gateway ----
  gateway,       \* the gateway: the ledger's current state version, the
                 \* resource of each collection item, the page sizes it uses
  call,          \* the top-level calls in progress, one record per call
  \* ---- parseNonFungibleData (Utils.ts) ----
  parser_pc,     \* "idle" | "called" | "done"
  parser_in,     \* the two nodes handed to the parser, one after the other
  parser_out,    \* what the parser returned for them
  \* ---- StringManifestBuilder (StringManifestBuilder.ts) ----
  mb_pc,         \* "idle" | "new" | "called" | "built"
  mb_builder,    \* the builder: _instructions, and the name and arguments
                 \* each instruction was emitted from
  mb_before,     \* the builder as it was before the last call
  mb_output,     \* what the last build() returned
  mb_calls,      \* number of builder methods called
  \* ---- NFT containers (NFT.ts, NFTSet.ts, NFTMap.ts) ----
  nft_pc,        \* "idle" | "new" | "used"
  nft_set,       \* NFTSet._set
  nft_map,       \* NFTMap._map
  nft_log,       \* the operations made on the two containers, in order
  nft_call,      \* the call made since the containers changed, its result
  \* ---- WalletInterface.sendTransaction ----
  wi_pc,         \* "idle" | "new" | "racing" | "details" | "resolved" |
                 \* "rejected"
  wi_manifest,   \* the manifest sent
  wi_message,    \* the message sent with it
  wi_debugMode,  \* this._debugMode
  wi_timer,      \* "none" | "armed" | "fired": the 60 s timer
  wi_timed_out,  \* the timer fired before the wallet interaction completed
  wi_result,     \* what sendTransaction settled with
  wi_caught,     \* the error the catch block of sendTransaction caught
  \* ---- GatewayProcessor: constructor and request helpers ----
  gp_pc,         \* "idle" | "ready" | "try" | "wait" | "returned" | "thrown"
  gp_args,       \* the maxLoops and concurrencyLimit constructor arguments
  gp_maxLoops,   \* this._maxLoops
  gp_concurrencyLimit,  \* this._concurrencyLimit
  gp_helper,     \* the request helper that was called
  gp_loop_count, \* loop_count of its withMaxLoops
  gp_attempts,   \* how often the gateway was asked for this request
  wc_account,    \* this._account of the WalletInterface
  wc_fungibles,  \* this._fungibles: address -> amount held
  wc_nonFungibles,         \* this._nonFungibles: resource -> id -> item
  wc_trackedNonFungibles,  \* this._trackedNonFungibles
  wc_xrdAddress, \* this._xrdAddress
  wc_pending,    \* the gateway fetches of the update methods in flight
  wc_queued,     \* the wallet-data handlers whose awaited method has settled
  wc_rejected,   \* the wallet-data handlers whose promise rejected
  wc_events,     \* how many walletData$ events were handled
  wc_calls       \* how many update methods the application called

wmlVars == <<wml_pc, max_loops, loop_count, succeedAt, calls, wml_result,
             wml_error, wml_events>>
dibVars == <<dib_pc, collection, collection0, batchSize, batches>>

gwVars == <<gateway, call>>
parserVars == <<parser_pc, parser_in, parser_out>>
mbVars == <<mb_pc, mb_builder, mb_before, mb_output, mb_calls>>
nftVars == <<nft_pc, nft_set, nft_map, nft_log, nft_call>>
wiVars ==
  <<wi_pc, wi_manifest, wi_message, wi_debugMode, wi_timer, wi_timed_out,
    wi_result, wi_caught>>
gpVars ==
  <<gp_pc, gp_args, gp_maxLoops, gp_concurrencyLimit, gp_helper,
    gp_loop_count, gp_attempts>>
wcVars ==
  <<wc_account, wc_fungibles, wc_nonFungibles, wc_trackedNonFungibles,
    wc_xrdAddress, wc_pending, wc_queued, wc_rejected, wc_events, wc_calls>>
libVars == <<parserVars, mbVars, nftVars, wiVars, gpVars, wcVars>>

vars == <<wmlVars, dibVars, gwVars, libVars>>

\* ------------------------------------------------------------------------
\* Bounds
\* ------------------------------------------------------------------------
\* largest max_loops argument tried
MaxLoopsArg == 3
\* longest collection handed to divideInBatches
MaxLen == 4
\* largest batchSize handed to divideInBatches
MaxBatchSize == 3

\* invocations of toRun after which an endless retry loop is cut off
MaxCalls == MaxLoopsArg + 2
\* elements of the collections
Elems == {"a", "b"}

Min(a, b) == IF a < b THEN a ELSE b

\* an optional number argument: left out, or given with a value
Omitted == [given |-> FALSE, value |-> 0]
Given(n) == [given |-> TRUE, value |-> n]

\* the decimal digits of a number below ten
Digit(d) ==
  CASE d = 0 -> "0" [] d = 1 -> "1" [] d = 2 -> "2" [] d = 3 -> "3"
    [] d = 4 -> "4" [] d = 5 -> "5" [] d = 6 -> "6" [] d = 7 -> "7"
    [] d = 8 -> "8" [] OTHER -> "9"

RECURSIVE NumberToString(_)
\* `${decimal}` of a whole number
NumberToString(n) ==
  IF n < 10 THEN Digit(n) ELSE NumberToString(n \div 10) \o Digit(n % 10)

SeqsUpTo(S, n) == UNION {[1..k -> S] : k \in 0..n}

\* ------------------------------------------------------------------------
\* Utils.ts: divideInBatches
\* ------------------------------------------------------------------------
\* a slice whose end index is taken as inclusive
SliceInclusive(s, from, to) == SubSeq(s, from + 1, Min(to + 1, Len(s)))

\* Array.prototype.slice(from, to): indices 0-based and the end exclusive;
\* a negative index counts from the end of the array, and both are clamped
\* to 0..length
Slice(s, from, to) ==
  LET len == Len(s)
      k == IF from < 0 THEN (IF len + from < 0 THEN 0 ELSE len + from)
           ELSE Min(from, len)
      final == IF to < 0 THEN (IF len + to < 0 THEN 0 ELSE len + to)
               ELSE Min(to, len)
  IN IF k < final THEN SubSeq(s, k + 1, final) ELSE <<>>

RECURSIVE divideInBatchesFrom(_, _, _, _)
\* the for loop: i runs from its start in steps of size while i < length
divideInBatchesFrom(coll, size, i, acc) ==
  IF i < Len(coll)
  THEN divideInBatchesFrom(coll, size, i + size,
                           Append(acc, Slice(coll, i, i + size)))
  ELSE acc

divideInBatches(coll, size) == divideInBatchesFrom(coll, size, 0, <<>>)

DibIdle ==
  /\ dib_pc = "idle"
  /\ collection = <<>>
  /\ collection0 = <<>>
  /\ batchSize = 1
  /\ batches = <<>>

DibInit ==
  /\ dib_pc = "called"
  /\ collection \in SeqsUpTo(Elems, MaxLen)
  /\ collection0 = collection
  /\ batchSize \in 1..MaxBatchSize
  /\ batches = <<>>

\* the call runs to its return statement; slice copies, the argument is
\* not written
DivideInBatches ==
  /\ dib_pc = "called"
  /\ batches' = divideInBatches(collection, batchSize)
  /\ dib_pc' = "done"
  /\ UNCHANGED <<collection, collection0, batchSize>>

\* ------------------------------------------------------------------------
\* Utils.ts: withMaxLoops
\* ------------------------------------------------------------------------
\* toRun: attempt n resolves iff it is the attempt that was set to succeed
toRunSucceeds(n) == succeedAt # 0 /\ n = succeedAt
\* the value attempt n resolves to, and the error attempt n rejects with
toRunValue(n) == n
toRunError(n) == n

\* a catch block that gives up one failure early
CatchGivesUpEarly(count, cap) == count + 2 >= cap

\* the catch block: count the failure, give up when the count equals the cap
CatchGivesUp(count, cap) == count + 1 = cap

WmlIdle ==
  /\ wml_pc = "idle"
  /\ max_loops = 1
  /\ loop_count = 0
  /\ succeedAt = 0
  /\ calls = 0
  /\ wml_result = 0
  /\ wml_error = 0
  /\ wml_events = <<>>

WmlInit ==
  /\ wml_pc = "try"
  /\ max_loops \in (0 - 1)..MaxLoopsArg
  /\ loop_count = 0
  /\ succeedAt \in 0..MaxCalls
  /\ calls = 0
  /\ wml_result = 0
  /\ wml_error = 0
  /\ wml_events = <<>>

\* try { return await toRun() }: the attempt resolves
WmlAttemptResolves ==
  /\ wml_pc = "try"
  /\ calls < MaxCalls
  /\ toRunSucceeds(calls + 1)
  /\ calls' = calls + 1
  /\ wml_result' = toRunValue(calls + 1)
  /\ wml_pc' = "returned"
  /\ wml_events' = Append(wml_events, "attempt")
  /\ UNCHANGED <<max_loops, loop_count, succeedAt, wml_error>>

\* the attempt rejects and the catch block runs: the cap is reached (log,
\* rethrow) or the 500 ms timer is started
WmlAttemptRejects ==
  /\ wml_pc = "try"
  /\ calls < MaxCalls
  /\ ~toRunSucceeds(calls + 1)
  /\ calls' = calls + 1
  /\ loop_count' = loop_count + 1
  /\ IF CatchGivesUp(loop_count, max_loops)
     THEN /\ wml_error' = toRunError(calls + 1)
          /\ wml_pc' = "thrown"
          /\ wml_events' = wml_events \o <<"attempt", "log">>
     ELSE /\ wml_error' = wml_error
          /\ wml_pc' = "wait"
          /\ wml_events' = Append(wml_events, "attempt")
  /\ UNCHANGED <<max_loops, succeedAt, wml_result>>

\* the 500 ms timer fires and the loop goes round
WmlTimerFires ==
  /\ wml_pc = "wait"
  /\ wml_pc' = "try"
  /\ wml_events' = Append(wml_events, "wait")
  /\ UNCHANGED <<max_loops, loop_count, succeedAt, calls, wml_result,
                 wml_error>>

\* ------------------------------------------------------------------------
\* GatewayProcessor.ts: construction
\* ------------------------------------------------------------------------
\* the maxLoops and concurrencyLimit arguments the processor is built with
CtorMaxLoops == 2
CtorConcurrencyLimit == 2

DefaultMaxLoops == 30
DefaultConcurrencyLimit == 10

\* this._maxLoops and this._concurrencyLimit
maxLoops == IF CtorMaxLoops # 0 THEN CtorMaxLoops ELSE DefaultMaxLoops
concurrencyLimit ==
  IF CtorConcurrencyLimit # 0 THEN CtorConcurrencyLimit
  ELSE DefaultConcurrencyLimit

\* the batch sizes of the fan-out methods: 20 addresses per entity details
\* request, 100 ids per item data or location request
EntityBatchSize == 20
IdBatchSize == 100

\* a limiter as wide as the work handed to it
pLimitUnbounded == concurrencyLimit + 1

\* pLimit(this._concurrencyLimit): the width of the limiter a call creates
pLimitConcurrency == concurrencyLimit

\* ------------------------------------------------------------------------
\* The gateway: what the remote API holds and answers
\* ------------------------------------------------------------------------
Calls == {1, 2}

Undefined == "undefined"
\* an absent cursor (null or undefined); every cursor the gateway hands out
\* is a positive offset
NoCursor == 0

StringValue(k, v) ==
  [key |-> k, kind |-> "String", value |-> v, fields |-> <<>>]
EnumValue(k, fs) ==
  [key |-> k, kind |-> "Enum", value |-> Undefined, fields |-> fs]
StringField(v) == [kind |-> "String", value |-> v]

\* one fungible holding of an entity, the amount as its decimal digits
Holding(level, address, amount) ==
  [aggregation_level |-> level, resource_address |-> address,
   amount |-> amount]

\* entity details without fungible_resources
NoFungibles == [defined |-> FALSE, items |-> <<>>]

\* the entity details of the resources: r1 carries a plain string name, r2 a
\* name wrapped in a one-field enum, r3 no name, r4 a name enum without field,
\* r5 no name, r6 and every further resource a plain string name; and of
\* the accounts: account1 holds
\* r1, r5 and r6 with a vault-level entry beside the total of r1, account2
\* has vault-level entries only, account3 reports no fungibles, account4
\* holds r6, r1 and as many further resources as fill one batch
Entity(a) ==
  CASE a = "r1" ->
         [address |-> a, details |-> "FungibleResource",
          metadata |-> <<StringValue("name", "n1"), StringValue("symbol", "S1"),
                         StringValue("tags", "t1")>>]
    [] a = "r2" ->
         [address |-> a, details |-> "NonFungibleResource",
          metadata |-> <<EnumValue("name", <<StringField("n2")>>),
                         EnumValue("icon_url", <<StringField("i2")>>)>>]
    [] a = "r3" ->
         [address |-> a, details |-> "NonFungibleResource",
          metadata |-> <<StringValue("description", "d3")>>]
    [] a = "r5" ->
         [address |-> a, details |-> "FungibleResource",
          metadata |-> <<StringValue("description", "d5")>>]
    [] a = "r6" ->
         [address |-> a, details |-> "FungibleResource",
          metadata |-> <<StringValue("name", "n6"),
                         StringValue("description", "d6")>>]
    [] a = "account1" ->
         [address |-> a, details |-> "Component", metadata |-> <<>>,
          fungible_resources |->
            [defined |-> TRUE,
             items |-> <<Holding("Global", "r1", <<2, 0, 0, 0, 0>>),
                         Holding("Vault", "r1", <<5>>),
                         Holding("Global", "r5", <<7>>),
                         Holding("Global", "r6", <<2, 2>>)>>]]
    [] a = "account2" ->
         [address |-> a, details |-> "Component", metadata |-> <<>>,
          fungible_resources |->
            [defined |-> TRUE,
             items |-> <<Holding("Vault", "r1", <<5>>),
                         Holding("Vault", "r6", <<9>>)>>]]
    [] a = "account3" ->
         [address |-> a, details |-> "Component", metadata |-> <<>>,
          fungible_resources |-> NoFungibles]
    [] a = "account4" ->
         [address |-> a, details |-> "Component", metadata |-> <<>>,
          fungible_resources |->
            [defined |-> TRUE,
             items |-> <<Holding("Global", "r6", <<3>>),
                         Holding("Global", "r1", <<4>>)>>
                       \o [i \in 1..(EntityBatchSize - 1) |->
                             Holding("Global",
                                     "r" \o NumberToString(6 + i),
                                     <<1>>)]]]
    [] a = "r4" ->
         [address |-> a, details |-> "FungibleResource",
          metadata |-> <<EnumValue("name", <<>>)>>]
    [] OTHER ->
         [address |-> a, details |-> "FungibleResource",
          metadata |-> <<StringValue("name", "n" \o a)>>]

\* the current owner of a non-fungible: #3# has no owning ancestor
OwnerOf(id) ==
  CASE id = "#1#" -> "account1"
    [] id = "#2#" -> "account2"
    [] OTHER -> Undefined

\* no data comes with the item
NoData == [kind |-> "none", fields |-> <<>>]

\* the data of a non-fungible, as programmatic_json: #1# has two promoted
\* fields, two other named fields and a field without a name, #2# has
\* promoted fields only, #3# is no tuple
DataOf(id) ==
  CASE id = "#1#" ->
         [kind |-> "Tuple", fields |->
            <<[field_name |-> "name", kind |-> "String", value |-> "one"],
              [field_name |-> "level", kind |-> "String", value |-> "5"],
              [field_name |-> Undefined, kind |-> "String", value |-> "x"],
              [field_name |-> "active", kind |-> "Bool", value |-> TRUE],
              [field_name |-> "name", kind |-> "String", value |-> "uno"]>>]
    [] id = "#2#" ->
         [kind |-> "Tuple", fields |->
            <<[field_name |-> "description", kind |-> "String",
               value |-> "two"],
              [field_name |-> "key_image_url", kind |-> "String",
               value |-> "u2"]>>]
    [] id = "#3#" ->
         [kind |-> "String", fields |-> <<>>, field_name |-> "name",
          value |-> "three"]
    [] OTHER -> NoData

\* /state/entity/details
GatewayEntityDetails(request) ==
  [items |-> [i \in 1..Len(request.addresses) |-> Entity(request.addresses[i])]]

LocationItem(id) ==
  [non_fungible_id |-> id, owning_vault_global_ancestor_address |-> OwnerOf(id)]
\* /state/non-fungible/location
GatewayNonFungibleLocation(request) ==
  [i \in 1..Len(request.ids) |-> LocationItem(request.ids[i])]

DataItem(id) == [non_fungible_id |-> id, data |-> DataOf(id)]
\* /state/non-fungible/data
GatewayNonFungibleData(request) ==
  [i \in 1..Len(request.ids) |-> DataItem(request.ids[i])]

\* ------------------------------------------------------------------------
\* GatewayProcessor.ts: requests
\* ------------------------------------------------------------------------
NoReq == [endpoint |-> "none"]

\* entityDetails
stateEntityDetailsRequest(addresses) ==
  [endpoint |-> "stateEntityDetails", addresses |-> addresses,
   aggregation_level |-> "Global"]

\* getEntityLocation
nonFungibleLocationRequest(address, ids) ==
  [endpoint |-> "nonFungibleLocation", address |-> address, ids |-> ids]

\* getNonFungibleData
nonFungibleDataRequest(address, ids, at_ledger_state) ==
  [endpoint |-> "nonFungibleData", address |-> address, ids |-> ids,
   state_version |-> at_ledger_state]

\* ------------------------------------------------------------------------
\* JavaScript Map and array helpers
\* ------------------------------------------------------------------------
EmptyMap == [k \in {} |-> Undefined]

\* Map.prototype.set
MapSet(m, k, v) ==
  [x \in (DOMAIN m) \cup {k} |-> IF x = k THEN v ELSE m[x]]

\* items.forEach((value, key) => target.set(key, value))
MapSetAll(target, items) ==
  [x \in (DOMAIN target) \cup (DOMAIN items) |->
     IF x \in DOMAIN items THEN items[x] ELSE target[x]]

Range(s) == {s[i] : i \in DOMAIN s}

\* the keys of a Map in the order of their insertion: Map.prototype.set of
\* a key the map has keeps its place, a new key goes last
KeysSet(keys, k) == IF k \in Range(keys) THEN keys ELSE Append(keys, k)

RECURSIVE FirstOfEach(_)
\* the keys a list would insert into an empty Map, in order: those of its
\* first half, then those of the second half that are new
FirstOfEach(more) ==
  IF Len(more) <= 1 THEN more
  ELSE LET half == Len(more) \div 2
           first == FirstOfEach(SubSeq(more, 1, half))
           second == FirstOfEach(SubSeq(more, half + 1, Len(more)))
       IN first \o SelectSeq(second, LAMBDA k : k \notin Range(first))

\* the keys after items.forEach((value, key) => target.set(key, value))
KeysSetAll(keys, more) ==
  keys \o SelectSeq(FirstOfEach(more), LAMBDA k : k \notin Range(keys))

\* ------------------------------------------------------------------------
\* GatewayProcessor.ts: limitedResourcesInformation
\* ------------------------------------------------------------------------
\* what one of the name, description, icon_url and symbol entries assigns:
\* a plain string, the string field of an enum, or nothing; reading the kind
\* of the first field of an enum without fields raises a TypeError
MetadataText(md) ==
  IF md.kind = "String"
  THEN [threw |-> FALSE, assigns |-> TRUE, value |-> md.value]
  ELSE IF md.kind = "Enum"
  THEN IF Len(md.fields) = 0
       THEN [threw |-> TRUE, assigns |-> FALSE, value |-> Undefined]
       ELSE IF md.fields[1].kind = "String"
            THEN [threw |-> FALSE, assigns |-> TRUE,
                  value |-> md.fields[1].value]
            ELSE [threw |-> FALSE, assigns |-> FALSE, value |-> Undefined]
  ELSE [threw |-> FALSE, assigns |-> FALSE, value |-> Undefined]

NoMetadata ==
  [name |-> Undefined, description |-> Undefined, icon |-> Undefined,
   symbol |-> Undefined, other_metadata |-> {}, threw |-> FALSE]

MetadataSlot(key) ==
  CASE key = "name" -> "name"
    [] key = "description" -> "description"
    [] key = "icon_url" -> "icon"
    [] key = "symbol" -> "symbol"
    [] OTHER -> "other"

RECURSIVE ScanMetadata(_, _, _, _)
\* item.metadata.items.forEach(...) from entry i on
ScanMetadata(items, additional_metadata, i, acc) ==
  IF i > Len(items) \/ acc.threw THEN acc
  ELSE LET md == items[i]
           slot == MetadataSlot(md.key)
           text == MetadataText(md)
       IN IF slot = "other"
          THEN ScanMetadata(items, additional_metadata, i + 1,
                 IF md.key \in additional_metadata
                 THEN [acc EXCEPT !.other_metadata = @ \cup {md.key}]
                 ELSE acc)
          ELSE IF text.threw THEN [acc EXCEPT !.threw = TRUE]
          ELSE ScanMetadata(items, additional_metadata, i + 1,
                 IF text.assigns THEN [acc EXCEPT ![slot] = text.value]
                 ELSE acc)

\* a test that lets every name pass
TruthyAlways(v) == TRUE

\* if (name): undefined and the empty string do not count
Truthy(v) == v # Undefined /\ v # ""

ResourceInformationOf(item, md) ==
  IF item.details = "NonFungibleResource"
  THEN [type |-> "NonFungible", name |-> md.name, address |-> item.address,
        description |-> md.description, icon |-> md.icon,
        symbol |-> Undefined, other_metadata |-> md.other_metadata]
  ELSE [type |-> "Fungible", name |-> md.name, address |-> item.address,
        description |-> md.description, icon |-> md.icon,
        symbol |-> md.symbol, other_metadata |-> md.other_metadata]

RECURSIVE ParseEntities(_, _, _, _)
\* resp.items.forEach(...) from item i on: the map built, or the TypeError
ParseEntities(items, additional_metadata, i, acc) ==
  IF i > Len(items) \/ acc.threw THEN acc
  ELSE LET item == items[i]
           md == ScanMetadata(item.metadata, additional_metadata, 1,
                              NoMetadata)
       IN IF item.details = Undefined
          THEN ParseEntities(items, additional_metadata, i + 1, acc)
          ELSE IF md.threw THEN [acc EXCEPT !.threw = TRUE]
          ELSE ParseEntities(items, additional_metadata, i + 1,
                 IF Truthy(md.name)
                    /\ item.details \in {"NonFungibleResource",
                                         "FungibleResource"}
                 THEN [acc EXCEPT !.map =
                         MapSet(@, item.address,
                                ResourceInformationOf(item, md)),
                                  !.keys = KeysSet(@, item.address)]
                 ELSE acc)

\* the part of limitedResourcesInformation that follows the response
limitedResourcesInformation(resp, additional_metadata) ==
  ParseEntities(resp.items, additional_metadata, 1,
                [threw |-> FALSE, map |-> EmptyMap, keys |-> <<>>])

\* ------------------------------------------------------------------------
\* GatewayProcessor.ts: getNftOwners and getNonFungibleItemsFromIds, the
\* handling of one batch's response
\* ------------------------------------------------------------------------
\* the last item of nft_ids that carries an id
LastWith(nft_ids, id) ==
  CHOOSE i \in 1..Len(nft_ids) :
    /\ nft_ids[i].non_fungible_id = id
    /\ \A j \in (i + 1)..Len(nft_ids) : nft_ids[j].non_fungible_id # id

\* nft_ids.map((item) => return_map.set(id, owner!)): every id of the
\* response gets the owner its last item names, the other keys stay
SetOwners(return_map, nft_ids) ==
  LET ids == {nft_ids[i].non_fungible_id : i \in 1..Len(nft_ids)}
  IN [x \in (DOMAIN return_map) \cup ids |->
        IF x \in ids
        THEN nft_ids[LastWith(nft_ids, x)].owning_vault_global_ancestor_address
        ELSE return_map[x]]

\* str.slice(0, -2)
SliceOffTwo(str) ==
  IF Len(str) <= 2 THEN "" ELSE SubSeq(str, 1, Len(str) - 2)

RECURSIVE AppendEach(_, _, _)
\* arrayStr.forEach((subStr) => { str += subStr + ", " }) from element i on
AppendEach(arrayStr, i, str) ==
  IF i > Len(arrayStr) THEN str
  ELSE AppendEach(arrayStr, i + 1, str \o arrayStr[i] \o ", ")

\* arrayStringToString
arrayStringToString(arrayStr) == SliceOffTwo(AppendEach(arrayStr, 1, ""))

\* case "Map": the type names, when both are there, and then Map in front
MapPrefix(data, value) ==
  "Map" \o (IF Truthy(data.key_type_name) /\ Truthy(data.value_type_name)
            THEN "<" \o data.key_type_name \o ", " \o data.value_type_name
                   \o ">" \o value
            ELSE value)

\* a test that takes no enum for an Option
IsOptionNever(data) == FALSE

\* data.type_name && data.type_name === "Option"
IsOption(data) == Truthy(data.type_name) /\ data.type_name = "Option"

\* parentheses also around no fields
InParenthesesAlways(fields, value) == "(" \o value \o ")"

\* if (data.fields.length > 0) value = "(" + value + ")"
InParentheses(fields, value) ==
  IF Len(fields) > 0 THEN "(" \o value \o ")" ELSE value

RECURSIVE parseNonFungibleData(_)
RECURSIVE dataArrayToString(_)
RECURSIVE mapToString(_)

\* dataArrayToString
dataArrayToString(dataArray) ==
  arrayStringToString([i \in 1..Len(dataArray) |->
                         parseNonFungibleData(dataArray[i]).value])

\* mapToString
mapToString(map) ==
  arrayStringToString([i \in 1..Len(map) |->
                         parseNonFungibleData(map[i].key).value \o " => "
                           \o parseNonFungibleData(map[i].value).value])

\* parseNonFungibleData
parseNonFungibleData(data) ==
  LET name == IF Truthy(data.field_name) THEN data.field_name ELSE ""
  IN CASE data.kind = "Array" ->
            [name |-> name,
             value |-> "(" \o dataArrayToString(data.elements) \o ")"]
       [] data.kind = "Bool" ->
            [name |-> name, value |-> IF data.value THEN "true" ELSE "false"]
       [] data.kind = "Bytes" -> [name |-> name, value |-> data.hex]
       [] data.kind = "Enum" /\ IsOption(data) ->
            IF data.variant_name = "Some"
            THEN [name |-> name, value |-> dataArrayToString(data.fields)]
            ELSE [name |-> name, value |-> "None"]
       [] data.kind = "Enum" /\ ~IsOption(data) ->
            LET joined == dataArrayToString(data.fields)
                wrapped == InParentheses(data.fields, joined)
            IN [name |-> name,
                value |-> IF Truthy(data.variant_name)
                          THEN data.variant_name \o wrapped ELSE wrapped]
       [] data.kind = "Map" ->
            [name |-> name,
             value |-> MapPrefix(data, "(" \o mapToString(data.entries)
                                         \o ")")]
       [] data.kind = "Tuple" ->
            [name |-> name,
             value |-> "(" \o dataArrayToString(data.fields) \o ")"]
       [] OTHER -> [name |-> name, value |-> data.value]

\* an optional map that is undefined
AbsentMap == [defined |-> FALSE, entries |-> EmptyMap]

NoItemData ==
  [name |-> Undefined, description |-> Undefined, image_url |-> Undefined,
   non_fungible_data |-> EmptyMap]

RECURSIVE FilterData(_, _, _)
\* fields.forEach(...) from field i on
FilterData(fields, i, acc) ==
  IF i > Len(fields) THEN acc
  ELSE LET nf_data == parseNonFungibleData(fields[i])
       IN FilterData(fields, i + 1,
            IF ~Truthy(nf_data.name) THEN acc
            ELSE IF nf_data.name = "name"
                 THEN [acc EXCEPT !.name = nf_data.value]
            ELSE IF nf_data.name = "description"
                 THEN [acc EXCEPT !.description = nf_data.value]
            ELSE IF nf_data.name = "key_image_url"
                 THEN [acc EXCEPT !.image_url = nf_data.value]
            ELSE [acc EXCEPT !.non_fungible_data =
                    MapSet(@, nf_data.name, nf_data.value)])

\* a result that carries the map even when it is empty
SizeOrEmpty(non_fungible_data) ==
  [defined |-> TRUE, entries |-> non_fungible_data]

\* non_fungible_data.size > 0 ? non_fungible_data : undefined
SizeOrUndefined(non_fungible_data) ==
  IF DOMAIN non_fungible_data # {}
  THEN [defined |-> TRUE, entries |-> non_fungible_data]
  ELSE AbsentMap

\* items_data.map((item) => ...): one item
NonFungibleItemOf(item) ==
  LET d == IF item.data.kind = "Tuple"
           THEN FilterData(item.data.fields, 1, NoItemData)
           ELSE NoItemData
  IN [id |-> item.non_fungible_id, name |-> d.name,
      description |-> d.description, image_url |-> d.image_url,
      non_fungible_data |-> SizeOrUndefined(d.non_fungible_data)]

\* ------------------------------------------------------------------------
\* GatewayProcessor.ts: getFungibleResourcesHeldBy, the handling of the
\* entity details
\* ------------------------------------------------------------------------
RECURSIVE parseFloat(_)
\* parseFloat(resource.amount) on the digits of a whole amount
parseFloat(amount) ==
  IF amount = <<>> THEN 0
  ELSE 10 * parseFloat(SubSeq(amount, 1, Len(amount) - 1))
         + amount[Len(amount)]

\* a filter that lets every aggregation level pass
IsAnyLevel(resource) == TRUE

\* if (resource.aggregation_level === "Global")
IsGlobal(resource) == resource.aggregation_level = "Global"

RECURSIVE ScanHoldings(_, _, _)
\* fungible_resources.items.forEach(...) from item i on: resources and
\* amount_map
ScanHoldings(items, i, acc) ==
  IF i > Len(items) THEN acc
  ELSE ScanHoldings(items, i + 1,
         IF IsGlobal(items[i])
         THEN [resources |-> Append(acc.resources, items[i].resource_address),
               amount_map |-> MapSet(acc.amount_map,
                                     items[i].resource_address,
                                     parseFloat(items[i].amount))]
         ELSE acc)

\* one held resource out of its information
FungibleResourceOf(resource, address, amount_map) ==
  [name |-> resource.address, description |-> resource.description,
   address |-> resource.address, symbol |-> resource.symbol,
   icon |-> resource.icon, amount_held |-> amount_map[address]]
\* ------------------------------------------------------------------------
\* The gateway: the non-fungibles of the entity, served in pages
\* ------------------------------------------------------------------------
\* the last state version the ledger reaches
MaxVersion == 2
\* the largest page sizes the gateway uses for collection items and for ids
MaxItemsPerPage == 2
MaxIdsPerPage == 2

Entity1 == "account1"

\* the vaults of the entity's collection items, in the gateway's order
CollectionVaults == <<(<<"v1", "v2">>), (<<"v3">>), (<<"v4">>)>>

VaultIds(v) ==
  CASE v = "v1" -> <<"#1#", "#2#", "#3#">>
    [] v = "v2" -> <<"#4#">>
    [] v = "v3" -> <<"#5#", "#6#">>
    [] OTHER -> <<"#7#", "#8#">>

\* the state version from which an id is in its vault
MintedAt(id) == IF id \in {"#3#", "#6#"} THEN 2 ELSE 1

InVaultAt(version) == {id \in UNION {Range(VaultIds(v)) :
                          v \in {"v1", "v2", "v3", "v4"}} :
                        MintedAt(id) <= version}

RECURSIVE Keep(_, _)
\* the elements of s that are in S, in order
Keep(s, S) ==
  IF s = <<>> THEN <<>>
  ELSE IF Head(s) \in S THEN <<Head(s)>> \o Keep(Tail(s), S)
  ELSE Keep(Tail(s), S)

\* the ids a vault holds at a state version
VaultContent(v, version) == Keep(VaultIds(v), InVaultAt(version))

\* the page of s that starts after offset: the cursor handed out is the
\* offset of the next page
PageOf(s, offset, size) ==
  [items |-> SubSeq(s, offset + 1, Min(offset + size, Len(s))),
   next_cursor |-> IF offset + size < Len(s) THEN offset + size ELSE NoCursor]

\* the state version a request is answered at: the one it is pinned to, or
\* the current one
AnsweredAt(request) ==
  IF request.state_version = 0 THEN gateway.state_version
  ELSE request.state_version

VaultEntry(v, version, size) ==
  LET page == PageOf(VaultContent(v, version), 0, size)
  IN [vault_address |-> v, items |-> page.items,
      next_cursor |-> page.next_cursor]

CollectionItem(i, version, size) ==
  [aggregation_level |-> "Vault",
   resource_address |-> gateway.resource_of[i],
   vaults |-> [items |-> [k \in 1..Len(CollectionVaults[i]) |->
                            VaultEntry(CollectionVaults[i][k], version, size)]]]

\* /state/entity/page/non-fungibles for call c
GatewayEntityNonFungiblesPage(request, c) ==
  LET version == AnsweredAt(request)
      all == [i \in 1..Len(CollectionVaults) |->
                CollectionItem(i, version, gateway.ids_per_page[c])]
  IN PageOf(all, request.cursor, gateway.items_per_page)

\* /state/entity/page/non-fungible-vault/ids for call c
GatewayEntityNonFungibleIdsPage(request, c) ==
  PageOf(VaultContent(request.vault_address, AnsweredAt(request)),
         request.cursor, gateway.ids_per_page[c])

\* /status/gateway-status
GatewayStatus == [state_version |-> gateway.state_version]

\* the ledger moves on while calls are in progress
LedgerAdvances ==
  /\ gateway.state_version < MaxVersion
  /\ gateway' = [gateway EXCEPT !.state_version = @ + 1]
  /\ UNCHANGED call

\* ------------------------------------------------------------------------
\* GatewayProcessor.ts: requests of the paginated reads
\* ------------------------------------------------------------------------
\* ledgerState
statusRequest == [endpoint |-> "status"]

\* getEntityCollections
entityNonFungiblesPageRequest(entity, cursor, ledger_state) ==
  [endpoint |-> "entityNonFungiblesPage", address |-> entity,
   aggregation_level |-> "Vault", cursor |-> cursor,
   state_version |-> ledger_state]

\* a vault page request that is sent without its pin
entityNonFungibleIdsPageUnpinned(address, vault_address, resource_address, cursor, at_ledger_state) ==
  [endpoint |-> "entityNonFungibleIdsPage", address |-> address,
   vault_address |-> vault_address, resource_address |-> resource_address,
   cursor |-> cursor, state_version |-> 0]

\* getEntityNFTsInVault: cursor and pin go out together or not at all
entityNonFungibleIdsPageRequest(address, vault_address, resource_address, cursor, at_ledger_state) ==
  IF cursor # NoCursor /\ at_ledger_state # 0
  THEN [endpoint |-> "entityNonFungibleIdsPage", address |-> address,
        vault_address |-> vault_address,
        resource_address |-> resource_address,
        cursor |-> cursor, state_version |-> at_ledger_state]
  ELSE [endpoint |-> "entityNonFungibleIdsPage", address |-> address,
        vault_address |-> vault_address,
        resource_address |-> resource_address,
        cursor |-> NoCursor, state_version |-> 0]

\* ------------------------------------------------------------------------
\* GatewayProcessor.ts: a top-level call and its threads of control
\* ------------------------------------------------------------------------
\* One thread of control of a call: thread 0 is the body of the public
\* method, threads 1..n are the async callbacks of its map(). pc is
\*   "called"  the method was invoked, nothing has run yet
\*   "queued"  an operation waits in the limiter's queue
\*   "running" a request of withMaxLoops is in flight
\*   "wait"    withMaxLoops waits for its retry timer
\*   "await"   the body awaits its callbacks
\*   "done" | "failed"  finished, or threw
\* served_n and served_next record what the gateway answered in the
\* thread's current page loop: the number of pages and the last next_cursor.
\* no error was thrown
NoError == [kind |-> "none"]

\* no value was returned
NoValue == [kind |-> "none"]

NewThread ==
  [pc |-> "called", step |-> "none", loop_count |-> 0, req |-> NoReq,
   cursor |-> NoCursor, vault |-> 0, resource_owned |-> 0, out |-> <<>>,
   error |-> NoError, served_n |-> 0, served_next |-> NoCursor]

\* entity_filter when the caller gives none
NoFilter == [given |-> FALSE, addresses |-> {}]

\* let collection: no collection found yet
NoCollection ==
  [aggregation_level |-> Undefined, resource_address |-> Undefined,
   vaults |-> [items |-> <<>>]]

\* A call: the arguments, the promise handed to the caller (status, value,
\* error), the locals of the method (named as in the source; heap holds the
\* arrays that owned and resource_owned refer to; resource_keys and
\* owned_keys hold the keys of the Maps resource_map and owned in the order
\* of their insertion), the limiter (activeCount,
\* queue) and frame, the method whose callbacks are running. answered
\* records the kinds of answers submitManifest got, in order, and polls
\* counts its status answers up to MaxPolls.
NoCall ==
  [method |-> "none", frame |-> "none",
   input |-> <<>>, additional_metadata |-> {},
   entity |-> Undefined, resource |-> Undefined, at_ledger_state |-> 0,
   from_state_version |-> 0, receipt_state_changes |-> Undefined,
   entity_filter |-> NoFilter, max_amount |-> Omitted,
   status |-> "none", value |-> NoValue, error |-> NoError,
   threads |-> [t \in {0} |-> [NewThread EXCEPT !.pc = "done"]],
   batches |-> <<>>, activeCount |-> 0, queue |-> <<>>,
   resource_map |-> EmptyMap, resource_keys |-> <<>>,
   ledger_state |-> 0, items |-> <<>>, owned |-> EmptyMap,
   owned_keys |-> <<>>, heap |-> <<>>,
   collection |-> NoCollection, ids |-> <<>>, full_stream |-> <<>>,
   manifest |-> Undefined, currentEpoch |-> 0,
   transactionStatus |-> Undefined, answered |-> <<>>, polls |-> 0,
   amount_map |-> EmptyMap, received |-> EmptyMap]

NewCall(method) ==
  [NoCall EXCEPT !.method = method, !.frame = method, !.status = "pending",
                 !.threads = [t \in {0} |-> NewThread]]

Tasks(cr) == (DOMAIN cr.threads) \ {0}

\* the request an operation handed to the limiter issues when it starts
TaskRequest(cr, t) ==
  CASE cr.frame = "getResourcesInformation" ->
         stateEntityDetailsRequest(cr.batches[t])
    [] cr.frame = "getNftOwners" ->
         nonFungibleLocationRequest(cr.resource, cr.batches[t])
    [] cr.frame = "getNonFungibleItemsFromIds" ->
         nonFungibleDataRequest(cr.resource, cr.batches[t],
                                cr.at_ledger_state)
    [] OTHER ->
         entityNonFungibleIdsPageRequest(
           cr.entity,
           cr.items[t].vaults.items[cr.threads[t].vault].vault_address,
           cr.items[t].resource_address,
           cr.threads[t].cursor,
           cr.ledger_state)

\* p-limit: the operation at the head of the queue starts
StartOperation(cr, t) ==
  [cr EXCEPT !.threads[t].pc = "running",
             !.threads[t].loop_count = 0,
             !.threads[t].req = TaskRequest(cr, t),
             !.activeCount = @ + 1,
             !.queue = Tail(@)]

RECURSIVE Admit(_)
\* p-limit: queued operations start while a slot is free
Admit(cr) ==
  IF cr.queue # <<>> /\ cr.activeCount < pLimitConcurrency
  THEN Admit(StartOperation(cr, Head(cr.queue)))
  ELSE cr

\* limit(fn): the operation of thread t is handed to the limiter
Enqueue(cr, t) ==
  Admit([cr EXCEPT !.threads[t].pc = "queued", !.queue = Append(@, t)])

\* p-limit: an operation settled, its slot goes to the next one queued
Settle(cr) == Admit([cr EXCEPT !.activeCount = @ - 1])

RECURSIVE EnqueueAll(_, _, _)
\* batches.map(async (batch) => { await limit(...) ... }): the callbacks run
\* in order up to their first await
EnqueueAll(cr, t, n) ==
  IF t > n THEN cr ELSE EnqueueAll(Enqueue(cr, t), t + 1, n)

RECURSIVE Flat(_)
\* Array.prototype.flat
Flat(ss) == IF ss = <<>> THEN <<>> ELSE Head(ss) \o Flat(Tail(ss))

\* the promise of the call resolves
Return(cr, v) ==
  [cr EXCEPT !.status = "resolved", !.value = v, !.threads[0].pc = "done"]

\* a throw that is swallowed: the thread ends, the call stays pending
ThrowSwallowed(cr, t, err) ==
  [cr EXCEPT !.threads[t].pc = "failed", !.threads[t].error = err,
             !.threads[t].req = NoReq]

\* a thread throws: the first error rejects the call, later ones are dropped
Throw(cr, t, err) ==
  LET failed == [cr EXCEPT !.threads[t].pc = "failed",
                           !.threads[t].error = err,
                           !.threads[t].req = NoReq]
  IN IF failed.status = "pending"
     THEN [failed EXCEPT !.status = "rejected", !.error = err,
                         !.threads[0].pc = "failed"]
     ELSE failed

\* the batch sizes of the three fan-out methods
BatchSizeOf(method) ==
  IF method = "getResourcesInformation" THEN EntityBatchSize ELSE IdBatchSize

RECURSIVE Resolve(_)

\* the synchronous start of a fan-out method: divide, create the limiter,
\* map the batches
FanOut(cr, method, input) ==
  LET bs == divideInBatches(input, BatchSizeOf(method))
      mapped == [cr EXCEPT
                   !.frame = method,
                   !.batches = bs,
                   !.resource_map = EmptyMap,
                   !.resource_keys = <<>>,
                   !.activeCount = 0,
                   !.queue = <<>>,
                   !.threads = [t \in 0..Len(bs) |->
                                  IF t = 0 THEN [NewThread EXCEPT !.pc = "await"]
                                  ELSE NewThread]]
  IN Resolve(EnqueueAll(mapped, 1, Len(bs)))

\* getNonFungibleResourcesHeldBy, after the information arrived:
\* resources_info.forEach(...) pushes one entry per resource with
\* information, in the order of the map, carrying the ids accumulated
NonFungibleResourcesOf(cr, resources_info) ==
  [i \in 1..Len(cr.resource_keys) |->
     LET a == cr.resource_keys[i]
     IN [name |-> resources_info[a].name,
         icon |-> resources_info[a].icon,
         address |-> a,
         description |-> resources_info[a].description,
         ids_held |-> cr.heap[cr.owned[a]]]]

\* getFungibleResourcesHeldBy, after the information arrived:
\* parsed_resources.forEach(...) pushes one entry per fungible resource,
\* in the order of the map
FungibleResourcesOf(cr, parsed_resources) ==
  LET addresses ==
        Keep(cr.resource_keys,
             {a \in DOMAIN parsed_resources :
                parsed_resources[a].type = "Fungible"})
  IN [i \in 1..Len(addresses) |->
        FungibleResourceOf(parsed_resources[addresses[i]], addresses[i],
                           cr.amount_map)]

\* await Promise.all(...): when every callback is done the body goes on to
\* its return, or to the next step of the method
Resolve(cr) ==
  IF cr.status = "pending" /\ cr.threads[0].pc = "await"
     /\ \A t \in Tasks(cr) : cr.threads[t].pc = "done"
  THEN CASE cr.method = "getNonFungibleResourcesHeldBy"
              /\ cr.frame = "getNonFungibleResourcesHeldBy" ->
              FanOut(cr, "getResourcesInformation", cr.owned_keys)
         [] cr.method = "getNonFungibleResourcesHeldBy"
              /\ cr.frame = "getResourcesInformation" ->
              Return(cr, NonFungibleResourcesOf(cr, cr.resource_map))
         [] cr.method = "getFungibleResourcesHeldBy"
              /\ cr.frame = "getResourcesInformation" ->
              Return(cr, FungibleResourcesOf(cr, cr.resource_map))
         [] cr.frame = "getNonFungibleItemsFromIds" ->
              Return(cr, Flat([t \in 1..Len(cr.batches) |->
                                 cr.threads[t].out]))
         [] OTHER -> Return(cr, cr.resource_map)
  ELSE cr

\* getResourcesInformation(resource_addresses, additional_metadata) is called
getResourcesInformation(c) ==
  /\ call[c].method = "getResourcesInformation"
  /\ call[c].threads[0].pc = "called"
  /\ call' = [call EXCEPT ![c] = FanOut(@, @.method, @.input)]
  /\ UNCHANGED gateway

\* getNftOwners(resource_address, ids) is called
getNftOwners(c) ==
  /\ call[c].method = "getNftOwners"
  /\ call[c].threads[0].pc = "called"
  /\ call' = [call EXCEPT ![c] = FanOut(@, @.method, @.input)]
  /\ UNCHANGED gateway

\* getNonFungibleItemsFromIds(resource_address, ids, at_ledger_state) is called
getNonFungibleItemsFromIds(c) ==
  /\ call[c].method = "getNonFungibleItemsFromIds"
  /\ call[c].threads[0].pc = "called"
  /\ call' = [call EXCEPT ![c] = FanOut(@, @.method, @.input)]
  /\ UNCHANGED gateway

\* the entity details of batch t arrive: limitedResourcesInformation parses
\* them and the callback merges the batch's map into resource_map
EntityDetailsArrive(c, t) ==
  /\ call[c].frame = "getResourcesInformation"
  /\ t \in Tasks(call[c])
  /\ call[c].threads[t].pc = "running"
  /\ LET cr == call[c]
         resp == GatewayEntityDetails(cr.threads[t].req)
         items == limitedResourcesInformation(resp, cr.additional_metadata)
     IN call' = [call EXCEPT ![c] =
          IF items.threw
          THEN Throw(Settle(cr), t, [kind |-> "TypeError", thread |-> t])
          ELSE Resolve(Settle(
                 [cr EXCEPT !.threads[t].pc = "done",
                            !.threads[t].req = NoReq,
                            !.resource_map = MapSetAll(@, items.map),
                            !.resource_keys =
                               KeysSetAll(@, items.keys)]))]
  /\ UNCHANGED gateway

\* the locations of batch t arrive: the callback sets every item's owner
NonFungibleLocationArrives(c, t) ==
  /\ call[c].frame = "getNftOwners"
  /\ t \in Tasks(call[c])
  /\ call[c].threads[t].pc = "running"
  /\ LET cr == call[c]
         nft_ids == GatewayNonFungibleLocation(cr.threads[t].req)
     IN call' = [call EXCEPT ![c] =
          Resolve(Settle(
            [cr EXCEPT !.threads[t].pc = "done",
                       !.threads[t].req = NoReq,
                       !.resource_map = SetOwners(@, nft_ids),
                       !.resource_keys =
                          KeysSetAll(@, [i \in 1..Len(nft_ids) |->
                                           nft_ids[i].non_fungible_id])]))]
  /\ UNCHANGED gateway

\* the data of batch t arrive: the callback returns the batch's items
NonFungibleDataArrives(c, t) ==
  /\ call[c].frame = "getNonFungibleItemsFromIds"
  /\ t \in Tasks(call[c])
  /\ call[c].threads[t].pc = "running"
  /\ LET cr == call[c]
         items_data == GatewayNonFungibleData(cr.threads[t].req)
     IN call' = [call EXCEPT ![c] =
          Resolve(Settle(
            [cr EXCEPT !.threads[t].pc = "done",
                       !.threads[t].req = NoReq,
                       !.threads[t].out =
                          [i \in 1..Len(items_data) |->
                             NonFungibleItemOf(items_data[i])]]))]
  /\ UNCHANGED gateway

\* ------------------------------------------------------------------------
\* withMaxLoops around a request of a call
\* ------------------------------------------------------------------------
\* the error the attempt numbered n of thread t's request rejects with
RequestError(t, n) == [kind |-> "request", thread |-> t, attempt |-> n]

\* an attempt of the request of thread t rejects: the catch block of
\* withMaxLoops counts it and rethrows at the cap, or starts the retry timer
RequestFails(c, t) ==
  /\ t \in DOMAIN call[c].threads
  /\ call[c].threads[t].pc = "running"
  /\ LET cr == call[c]
         th == cr.threads[t]
     IN call' = [call EXCEPT ![c] =
          IF CatchGivesUp(th.loop_count, maxLoops)
          THEN Throw(IF t = 0 THEN cr ELSE Settle(cr), t,
                     RequestError(t, th.loop_count + 1))
          ELSE [cr EXCEPT !.threads[t].pc = "wait",
                          !.threads[t].loop_count = @ + 1]]
  /\ UNCHANGED gateway

\* the retry timer of thread t fires: the request is attempted again
RetryTimerFires(c, t) ==
  /\ t \in DOMAIN call[c].threads
  /\ call[c].threads[t].pc = "wait"
  /\ call' = [call EXCEPT ![c].threads[t].pc = "running"]
  /\ UNCHANGED gateway

\* ------------------------------------------------------------------------
\* GatewayProcessor.ts: getNonFungibleResourcesHeldBy
\* ------------------------------------------------------------------------
\* thread t awaits a new request wrapped in withMaxLoops
AwaitRequest(cr, t, step, request) ==
  [cr EXCEPT !.threads[t].pc = "running", !.threads[t].step = step,
             !.threads[t].loop_count = 0, !.threads[t].req = request]

\* thread t took a page of its loop out of a response
Served(cr, t, next_cursor) ==
  [cr EXCEPT !.threads[t].served_n = @ + 1,
             !.threads[t].served_next = next_cursor,
             !.threads[t].cursor = next_cursor,
             !.threads[t].req = NoReq]

RECURSIVE Tally(_, _)
\* the count of every id, with the ids of one more response counted in
Tally(counts, ids) ==
  IF ids = <<>> THEN counts
  ELSE Tally(MapSet(counts, Head(ids),
                    IF Head(ids) \in DOMAIN counts
                    THEN counts[Head(ids)] + 1 ELSE 1),
             Tail(ids))

\* what the gateway handed to the call for a resource, with the ids of one
\* more vault entry or vault page
Received(received, resource_address, ids) ==
  MapSet(received, resource_address,
         Tally(IF resource_address \in DOMAIN received
               THEN received[resource_address] ELSE EmptyMap, ids))

\* a callback that leaves an inlined page out when the vault has more pages
PushInlinedUnlessMore(held, vault) ==
  IF vault.next_cursor # NoCursor THEN held ELSE held \o vault.items

\* if (vault.items) vault.items.forEach((nft_id) => held.push(nft_id))
PushInlined(held, vault) == held \o vault.items

RECURSIVE RunVaults(_, _, _)
\* the callback of item t from vault k on, up to its next await: the inlined
\* ids are pushed; a vault with a cursor hands a page read to the limiter, a
\* vault without one is stored in owned and the next vault follows
RunVaults(cr, t, k) ==
  LET item == cr.items[t]
      vaults == item.vaults.items
  IN IF k > Len(vaults)
     THEN [cr EXCEPT !.threads[t].pc = "done"]
     ELSE LET vault == vaults[k]
              ref == cr.threads[t].resource_owned
              pushed == [cr EXCEPT
                           !.heap[ref] = PushInlined(@, vault),
                           !.received = Received(@, item.resource_address,
                                                 vault.items),
                           !.threads[t].vault = k,
                           !.threads[t].cursor = vault.next_cursor,
                           !.threads[t].served_n = 1,
                           !.threads[t].served_next = vault.next_cursor]
          IN IF vault.next_cursor # NoCursor
             THEN Enqueue(pushed, t)
             ELSE RunVaults([pushed EXCEPT
                               !.owned =
                                 MapSet(@, item.resource_address, ref),
                               !.owned_keys =
                                 KeysSet(@, item.resource_address)],
                            t, k + 1)

\* the callback of item t starts: owned.get(resource_address) || []
StartItem(cr, t) ==
  LET item == cr.items[t]
      known == item.resource_address \in DOMAIN cr.owned
      ref == IF known THEN cr.owned[item.resource_address]
             ELSE Len(cr.heap) + 1
      taken == [cr EXCEPT !.heap = IF known THEN @ ELSE Append(@, <<>>),
                          !.threads[t].resource_owned = ref]
  IN IF item.aggregation_level = "Vault"
     THEN RunVaults(taken, t, 1)
     ELSE [cr EXCEPT !.threads[t].pc = "done"]

RECURSIVE MapItems(_, _)
\* items.map(async (item) => ...): the callbacks start in item order
MapItems(cr, t) ==
  IF t > Len(cr.items) THEN cr ELSE MapItems(StartItem(cr, t), t + 1)

\* getNonFungibleResourcesHeldBy(entity) is called: it reads the ledger state
getNonFungibleResourcesHeldBy(c) ==
  /\ call[c].method = "getNonFungibleResourcesHeldBy"
  /\ call[c].threads[0].pc = "called"
  /\ call' = [call EXCEPT ![c] = AwaitRequest(@, 0, "ledgerState",
                                              statusRequest)]
  /\ UNCHANGED gateway

\* ledgerState: status.ledger_state.state_version
ledgerStateOf(status) == status.state_version

\* a collections request that drops its cursor
collectionsRequestNoCursor(cr) ==
  entityNonFungiblesPageRequest(cr.entity, NoCursor, cr.ledger_state)

\* getEntityCollections(entity, cursor, ledger_state) as the two methods
\* call it in their do-while loops
collectionsRequest(cr) ==
  entityNonFungiblesPageRequest(cr.entity, cr.threads[0].cursor,
                                cr.ledger_state)

\* the ledger state arrives at getNonFungibleResourcesHeldBy or
\* getNonFungibleIdsHeldBy: the first collections page is requested
LedgerStateArrives(c) ==
  /\ call[c].method \in {"getNonFungibleResourcesHeldBy",
                         "getNonFungibleIdsHeldBy"}
  /\ call[c].threads[0].pc = "running"
  /\ call[c].threads[0].step = "ledgerState"
  /\ LET pinned == [call[c] EXCEPT
                      !.ledger_state = ledgerStateOf(GatewayStatus),
                      !.threads[0].cursor = NoCursor,
                      !.threads[0].served_n = 0,
                      !.threads[0].served_next = NoCursor]
     IN call' = [call EXCEPT ![c] =
          AwaitRequest(pinned, 0, "collections", collectionsRequest(pinned))]
  /\ UNCHANGED gateway

\* a collections page arrives at getNonFungibleResourcesHeldBy: the items
\* are kept; with a cursor the next page is requested, without one the
\* items are mapped and the body awaits the callbacks
CollectionsPageArrives(c) ==
  /\ call[c].method = "getNonFungibleResourcesHeldBy"
  /\ call[c].threads[0].pc = "running"
  /\ call[c].threads[0].step = "collections"
  /\ LET cr == call[c]
         resp == GatewayEntityNonFungiblesPage(cr.threads[0].req, c)
         kept == [Served(cr, 0, resp.next_cursor) EXCEPT
                    !.items = @ \o resp.items]
     IN call' = [call EXCEPT ![c] =
          IF resp.next_cursor # NoCursor
          THEN AwaitRequest(kept, 0, "collections", collectionsRequest(kept))
          ELSE Resolve(MapItems(
                 [kept EXCEPT
                    !.owned = EmptyMap, !.owned_keys = <<>>,
                    !.heap = <<>>,
                    !.activeCount = 0, !.queue = <<>>,
                    !.threads = [t \in 0..Len(kept.items) |->
                                   IF t = 0
                                   THEN [kept.threads[0] EXCEPT !.pc = "await"]
                                   ELSE NewThread]],
                 1))]
  /\ UNCHANGED gateway

\* a page of vault ids arrives at the callback of item t: the ids are
\* pushed and the operation settles; with a cursor the next page read is
\* handed to the limiter, without one the vault is stored in owned and the
\* callback goes on to its next vault
VaultPageArrives(c, t) ==
  /\ call[c].frame = "getNonFungibleResourcesHeldBy"
  /\ t \in Tasks(call[c])
  /\ call[c].threads[t].pc = "running"
  /\ LET cr == call[c]
         th == cr.threads[t]
         resp == GatewayEntityNonFungibleIdsPage(th.req, c)
         pushed == Settle([Served(cr, t, resp.next_cursor) EXCEPT
                             !.heap[th.resource_owned] = @ \o resp.items,
                             !.received =
                               Received(@, cr.items[t].resource_address,
                                        resp.items)])
     IN call' = [call EXCEPT ![c] =
          Resolve(
            IF resp.next_cursor # NoCursor
            THEN Enqueue(pushed, t)
            ELSE RunVaults([pushed EXCEPT
                              !.owned =
                                MapSet(@, cr.items[t].resource_address,
                                       th.resource_owned),
                              !.owned_keys =
                                KeysSet(@, cr.items[t].resource_address)],
                           t, th.vault + 1))]
  /\ UNCHANGED gateway

\* ------------------------------------------------------------------------
\* GatewayProcessor.ts: getNonFungibleIdsHeldBy
\* ------------------------------------------------------------------------
RECURSIVE FindCollection(_, _, _, _)
\* resp.items.forEach(...): the last item of the resource is kept
FindCollection(items, non_fungible_resource, i, found) ==
  IF i > Len(items) THEN found
  ELSE FindCollection(items, non_fungible_resource, i + 1,
         IF items[i].resource_address = non_fungible_resource
         THEN items[i] ELSE found)

RECURSIVE DrainVaults(_, _)
\* the loop over the vaults of the collection from vault k on, up to the
\* next await or to the return
DrainVaults(cr, k) ==
  LET vaults == cr.collection.vaults.items
  IN IF k > Len(vaults)
     THEN Return(cr, cr.ids)
     ELSE LET vault == vaults[k]
              pushed == [cr EXCEPT
                           !.ids = PushInlined(@, vault),
                           !.received =
                             Received(@, cr.collection.resource_address,
                                      vault.items),
                           !.threads[0].vault = k,
                           !.threads[0].cursor = vault.next_cursor,
                           !.threads[0].served_n = 1,
                           !.threads[0].served_next = vault.next_cursor]
          IN IF vault.next_cursor # NoCursor
             THEN AwaitRequest(pushed, 0, "vault",
                    entityNonFungibleIdsPageRequest(
                      cr.entity, vault.vault_address,
                      cr.collection.resource_address,
                      vault.next_cursor, cr.ledger_state))
             ELSE DrainVaults(pushed, k + 1)

\* a search that reads every collections page
SearchesEveryPage(cursor, found) == cursor # NoCursor

\* while (cursor && !collection)
SearchGoesOn(cursor, found) == cursor # NoCursor /\ found = NoCollection

\* getNonFungibleIdsHeldBy(entity, non_fungible_resource) is called: it
\* reads the ledger state
getNonFungibleIdsHeldBy(c) ==
  /\ call[c].method = "getNonFungibleIdsHeldBy"
  /\ call[c].threads[0].pc = "called"
  /\ call' = [call EXCEPT ![c] = AwaitRequest(@, 0, "ledgerState",
                                              statusRequest)]
  /\ UNCHANGED gateway

\* a collections page arrives at getNonFungibleIdsHeldBy: the search goes on
\* while there is a cursor and no collection; then the vaults are drained
CollectionSearchPageArrives(c) ==
  /\ call[c].method = "getNonFungibleIdsHeldBy"
  /\ call[c].threads[0].pc = "running"
  /\ call[c].threads[0].step = "collections"
  /\ LET cr == call[c]
         resp == GatewayEntityNonFungiblesPage(cr.threads[0].req, c)
         found == [Served(cr, 0, resp.next_cursor) EXCEPT
                     !.collection = FindCollection(resp.items, cr.resource,
                                                   1, @)]
     IN call' = [call EXCEPT ![c] =
          IF SearchGoesOn(resp.next_cursor, found.collection)
          THEN AwaitRequest(found, 0, "collections",
                            collectionsRequest(found))
          ELSE IF found.collection # NoCollection
                  /\ found.collection.aggregation_level = "Vault"
               THEN DrainVaults(found, 1)
               ELSE Return(found, found.ids)]
  /\ UNCHANGED gateway

\* a page of vault ids arrives at getNonFungibleIdsHeldBy
CollectionVaultPageArrives(c) ==
  /\ call[c].method = "getNonFungibleIdsHeldBy"
  /\ call[c].threads[0].pc = "running"
  /\ call[c].threads[0].step = "vault"
  /\ LET cr == call[c]
         th == cr.threads[0]
         resp == GatewayEntityNonFungibleIdsPage(th.req, c)
         pushed == [Served(cr, 0, resp.next_cursor) EXCEPT
                      !.ids = @ \o resp.items,
                      !.received =
                        Received(@, cr.collection.resource_address,
                                 resp.items)]
     IN call' = [call EXCEPT ![c] =
          IF resp.next_cursor # NoCursor
          THEN AwaitRequest(pushed, 0, "vault",
                 entityNonFungibleIdsPageRequest(
                   cr.entity,
                   cr.collection.vaults.items[th.vault].vault_address,
                   cr.collection.resource_address,
                   resp.next_cursor, cr.ledger_state))
          ELSE DrainVaults(pushed, th.vault + 1)]
  /\ UNCHANGED gateway

\* ------------------------------------------------------------------------
\* GatewayProcessor.ts: getAllNonFungibleIds
\* ------------------------------------------------------------------------
RECURSIVE ResourceIdsFrom(_, _, _)
\* the ids of a resource at a state version: those of its vaults, in order
ResourceIdsFrom(resource_address, version, i) ==
  IF i > Len(CollectionVaults) THEN <<>>
  ELSE (IF gateway.resource_of[i] = resource_address
        THEN Flat([k \in 1..Len(CollectionVaults[i]) |->
                     VaultContent(CollectionVaults[i][k], version)])
        ELSE <<>>)
       \o ResourceIdsFrom(resource_address, version, i + 1)

\* /state/non-fungible/ids for call c
GatewayNonFungibleIds(request, c) ==
  PageOf(ResourceIdsFrom(request.resource_address, AnsweredAt(request), 1),
         request.cursor, gateway.ids_per_page[c])

\* nonFungibleIds
nonFungibleIdsRequest(resource_address, at_ledger_state, cursor) ==
  [endpoint |-> "nonFungibleIds", resource_address |-> resource_address,
   cursor |-> cursor, state_version |-> at_ledger_state]

\* the first page request of getAllNonFungibleIds, once state_version is set
FirstIdsPage(cr, state_version) ==
  AwaitRequest([cr EXCEPT !.ledger_state = state_version,
                          !.threads[0].cursor = NoCursor,
                          !.threads[0].served_n = 0,
                          !.threads[0].served_next = NoCursor],
               0, "ids",
               nonFungibleIdsRequest(cr.resource, state_version, NoCursor))

\* getAllNonFungibleIds(resource_address, at_ledger_state) is called: with a
\* state version it requests the first page, without one the ledger state
getAllNonFungibleIds(c) ==
  /\ call[c].method = "getAllNonFungibleIds"
  /\ call[c].threads[0].pc = "called"
  /\ call' = [call EXCEPT ![c] =
       IF @.at_ledger_state # 0
       THEN FirstIdsPage(@, @.at_ledger_state)
       ELSE AwaitRequest(@, 0, "ledgerState", statusRequest)]
  /\ UNCHANGED gateway

\* the ledger state arrives at getAllNonFungibleIds
AllIdsLedgerStateArrives(c) ==
  /\ call[c].method = "getAllNonFungibleIds"
  /\ call[c].threads[0].pc = "running"
  /\ call[c].threads[0].step = "ledgerState"
  /\ call' = [call EXCEPT ![c] =
       FirstIdsPage(@, ledgerStateOf(GatewayStatus))]
  /\ UNCHANGED gateway

\* a page of ids arrives at getAllNonFungibleIds
AllIdsPageArrives(c) ==
  /\ call[c].method = "getAllNonFungibleIds"
  /\ call[c].threads[0].pc = "running"
  /\ call[c].threads[0].step = "ids"
  /\ LET cr == call[c]
         ids_resp == GatewayNonFungibleIds(cr.threads[0].req, c)
         kept == [Served(cr, 0, ids_resp.next_cursor) EXCEPT
                    !.ids = @ \o ids_resp.items]
     IN call' = [call EXCEPT ![c] =
          IF ids_resp.next_cursor # NoCursor
          THEN AwaitRequest(kept, 0, "ids",
                 nonFungibleIdsRequest(cr.resource, cr.ledger_state,
                                       ids_resp.next_cursor))
          ELSE Return(kept, kept.ids)]
  /\ UNCHANGED gateway

\* ------------------------------------------------------------------------
\* GatewayProcessor.ts: fullTransactionStream
\* ------------------------------------------------------------------------
\* the committed transactions of the ledger
Transactions ==
  <<[state_version |-> 1, transaction_status |-> "CommittedSuccess",
     affected |-> {"account1"}],
    [state_version |-> 2, transaction_status |-> "CommittedFailure",
     affected |-> {"account1"}],
    [state_version |-> 3, transaction_status |-> "CommittedSuccess",
     affected |-> {"account2"}],
    [state_version |-> 4, transaction_status |-> "CommittedSuccess",
     affected |-> {"account1", "account2"}],
    [state_version |-> 5, transaction_status |-> "CommittedSuccess",
     affected |-> {"account1"}]>>

\* the largest page size the gateway uses for the transaction stream
MaxTxsPerPage == 2

RECURSIVE SelectTxs(_, _)
\* the transactions a stream request asks for, in ascending order
SelectTxs(txs, request) ==
  IF txs = <<>> THEN <<>>
  ELSE (IF Head(txs).state_version >= request.from_state_version
           /\ (~request.filter.given
               \/ request.filter.addresses = {}
               \/ Head(txs).affected \cap request.filter.addresses # {})
        THEN <<Head(txs)>> ELSE <<>>)
       \o SelectTxs(Tail(txs), request)

\* /stream/transactions
GatewayStreamTransactions(request) ==
  PageOf(SelectTxs(Transactions, request), request.cursor,
         gateway.txs_per_page)

\* transactionStream: the request without and with an entity filter
streamTransactionsRequest(from_state_version, receipt_state_changes, cursor, filters) ==
  IF ~filters.given
  THEN [endpoint |-> "streamTransactions",
        from_state_version |-> from_state_version, cursor |-> cursor,
        filter |-> filters,
        receipt_state_changes |->
          IF receipt_state_changes = "true" THEN "true" ELSE "false"]
  ELSE [endpoint |-> "streamTransactions",
        from_state_version |-> from_state_version, cursor |-> cursor,
        filter |-> filters,
        receipt_state_changes |-> Undefined]

RECURSIVE CommittedSuccessOnly(_)
\* stream.items.map(...).filter(...): the CommittedSuccess transactions
CommittedSuccessOnly(txs) ==
  IF txs = <<>> THEN <<>>
  ELSE (IF Head(txs).transaction_status = "CommittedSuccess"
        THEN <<Head(txs)>> ELSE <<>>)
       \o CommittedSuccessOnly(Tail(txs))

\* full_stream.length < stop_amount, where stop_amount is
\* `max_amount ? max_amount : Number.MAX_SAFE_INTEGER`: a max_amount that
\* is left out and one that is given as 0 both make it
\* Number.MAX_SAFE_INTEGER, which no length reaches
BelowStopAmount(length, max_amount) ==
  IF max_amount.given /\ max_amount.value # 0
    THEN length < max_amount.value
    ELSE TRUE

\* full_stream.slice(0, stop_amount); a negative stop_amount counts from the
\* end of full_stream
SliceToStopAmount(full_stream, max_amount) ==
  IF max_amount.given /\ max_amount.value # 0
    THEN Slice(full_stream, 0, max_amount.value)
    ELSE full_stream

streamRequest(cr, cursor) ==
  streamTransactionsRequest(cr.from_state_version, cr.receipt_state_changes,
                            cursor, cr.entity_filter)

\* fullTransactionStream(from_state_version, receipt_state_changes,
\* entity_filter, max_amount) is called: the first page is requested
fullTransactionStream(c) ==
  /\ call[c].method = "fullTransactionStream"
  /\ call[c].threads[0].pc = "called"
  /\ call' = [call EXCEPT ![c] =
       AwaitRequest(@, 0, "stream", streamRequest(@, NoCursor))]
  /\ UNCHANGED gateway

\* a page of the stream arrives: its successful transactions are kept; the
\* loop goes on while there is a cursor and the stop amount is not reached
StreamPageArrives(c) ==
  /\ call[c].method = "fullTransactionStream"
  /\ call[c].threads[0].pc = "running"
  /\ call[c].threads[0].step = "stream"
  /\ LET cr == call[c]
         stream == GatewayStreamTransactions(cr.threads[0].req)
         kept == [Served(cr, 0, stream.next_cursor) EXCEPT
                    !.full_stream = @ \o CommittedSuccessOnly(stream.items)]
     IN call' = [call EXCEPT ![c] =
          IF stream.next_cursor # NoCursor
             /\ BelowStopAmount(Len(kept.full_stream), cr.max_amount)
          THEN AwaitRequest(kept, 0, "stream",
                            streamRequest(kept, stream.next_cursor))
          ELSE Return(kept, SliceToStopAmount(kept.full_stream,
                                              cr.max_amount))]
  /\ UNCHANGED gateway

\* ------------------------------------------------------------------------
\* GatewayProcessor.ts: submitManifest
\* ------------------------------------------------------------------------
\* the last epoch the ledger reaches
MaxEpoch == 2

\* the statuses /transaction/status answers for an intent: Unknown before
\* the gateway has the transaction, Pending once it was submitted, then one
\* of the final ones
FinalStatuses == {"CommittedSuccess", "CommittedFailure", "Rejected"}

\* the epoch moves on
EpochAdvances ==
  /\ gateway.epoch < MaxEpoch
  /\ gateway' = [gateway EXCEPT !.epoch = @ + 1]
  /\ UNCHANGED call

\* the ledger commits the pending transaction, with success or failure, or
\* rejects it
LedgerSettles ==
  /\ gateway.tx_status = "Pending"
  /\ \E s \in FinalStatuses : gateway' = [gateway EXCEPT !.tx_status = s]
  /\ UNCHANGED call

\* the notarized transaction built from the manifest: its intent hash and
\* header
NotarizedTransaction(manifest, currentEpoch) ==
  [intent_hash |-> <<"intent", manifest>>, manifest |-> manifest,
   startEpochInclusive |-> currentEpoch,
   endEpochExclusive |-> currentEpoch + 10]

\* submitTransaction
transactionSubmitRequest(notarizedTransaction) ==
  [endpoint |-> "transactionSubmit",
   notarized_transaction_hex |-> notarizedTransaction]

\* getTransactionStatus
transactionStatusRequest(intent_hash) ==
  [endpoint |-> "transactionStatus", intent_hash |-> intent_hash]

\* getCommittedDetails
committedDetailsRequest(intent_hash) ==
  [endpoint |-> "committedDetails", intent_hash |-> intent_hash]

\* /transaction/status
GatewayTransactionStatus(request) == [status |-> gateway.tx_status]

\* /transaction/committed-details knows committed transactions only
HasCommittedDetails(request) ==
  gateway.tx_status \in {"CommittedSuccess", "CommittedFailure"}

\* /transaction/committed-details
GatewayCommittedDetails(request) ==
  [transaction |->
     [intent_hash |-> request.intent_hash,
      transaction_status |-> gateway.tx_status,
      error_message |-> IF gateway.tx_status = "CommittedFailure"
                        THEN "failure" ELSE Undefined]]

\* the answer of a new kind is recorded after the ones before it
Answered(cr, kind) ==
  IF cr.answered # <<>> /\ cr.answered[Len(cr.answered)] = kind THEN cr
  ELSE [cr EXCEPT !.answered = Append(@, kind)]

\* a loop that stops polling at the first answer
KeepsPollingNever(transactionStatus) == FALSE

\* while (transactionStatus === undefined || status === Pending)
KeepsPolling(transactionStatus) ==
  transactionStatus = Undefined \/ transactionStatus = "Pending"

\* the status answers are counted up to here
MaxPolls == 3

\* the intent hash of the transaction of a call
IntentHashOf(cr) ==
  NotarizedTransaction(cr.manifest, cr.currentEpoch).intent_hash

\* a poll loop that gives up after MaxPolls answers
PollAgainCapped(cr) ==
  IF cr.polls >= MaxPolls THEN Throw(cr, 0, [kind |-> "polls"])
  ELSE AwaitRequest(cr, 0, "transactionStatus",
                    transactionStatusRequest(IntentHashOf(cr)))

\* the next iteration of the loop: a new getTransactionStatus, with a retry
\* count of its own
PollAgain(cr) ==
  AwaitRequest(cr, 0, "transactionStatus",
               transactionStatusRequest(IntentHashOf(cr)))

\* submitManifest(manifest, networkId, privateKey) is called: it reads the
\* current epoch
submitManifest(c) ==
  /\ call[c].method = "submitManifest"
  /\ call[c].threads[0].pc = "called"
  /\ call' = [call EXCEPT ![c] = AwaitRequest(@, 0, "epoch", statusRequest)]
  /\ UNCHANGED gateway

\* the current epoch arrives: the transaction is built, signed, notarized
\* and compiled, and submitted
CurrentEpochArrives(c) ==
  /\ call[c].method = "submitManifest"
  /\ call[c].threads[0].pc = "running"
  /\ call[c].threads[0].step = "epoch"
  /\ LET built == Answered([call[c] EXCEPT !.currentEpoch = gateway.epoch],
                           "epoch")
     IN call' = [call EXCEPT ![c] =
          AwaitRequest(built, 0, "submit",
            transactionSubmitRequest(
              NotarizedTransaction(built.manifest, built.currentEpoch)))]
  /\ UNCHANGED gateway

\* the submission is accepted: the gateway holds the transaction as pending
\* and the first status poll goes out
TransactionSubmitArrives(c) ==
  /\ call[c].method = "submitManifest"
  /\ call[c].threads[0].pc = "running"
  /\ call[c].threads[0].step = "submit"
  /\ gateway' = [gateway EXCEPT
                   !.tx_status = IF @ = "Unknown" THEN "Pending" ELSE @]
  /\ LET cr == Answered(call[c], "submit")
     IN call' = [call EXCEPT ![c] = PollAgain(cr)]

\* a status arrives: Pending is polled again at once, any other status ends
\* the loop and the committed details are read
TransactionStatusArrives(c) ==
  /\ call[c].method = "submitManifest"
  /\ call[c].threads[0].pc = "running"
  /\ call[c].threads[0].step = "transactionStatus"
  /\ LET resp == GatewayTransactionStatus(call[c].threads[0].req)
         cr == Answered([call[c] EXCEPT
                           !.transactionStatus = resp.status,
                           !.polls = IF @ < MaxPolls THEN @ + 1 ELSE @],
                        "transactionStatus")
     IN call' = [call EXCEPT ![c] =
          IF KeepsPolling(cr.transactionStatus) THEN PollAgain(cr)
          ELSE AwaitRequest(cr, 0, "committedDetails",
                            committedDetailsRequest(IntentHashOf(cr)))]
  /\ UNCHANGED gateway

\* the committed details arrive: the transaction is returned, whatever its
\* status
CommittedDetailsArrive(c) ==
  /\ call[c].method = "submitManifest"
  /\ call[c].threads[0].pc = "running"
  /\ call[c].threads[0].step = "committedDetails"
  /\ HasCommittedDetails(call[c].threads[0].req)
  /\ LET transactionCommit == GatewayCommittedDetails(call[c].threads[0].req)
     IN call' = [call EXCEPT ![c] =
          Return(Answered(@, "committedDetails"),
                 transactionCommit.transaction)]
  /\ UNCHANGED gateway

\* ------------------------------------------------------------------------
\* GatewayProcessor.ts: getFungibleResourcesHeldBy
\* ------------------------------------------------------------------------
\* getFungibleResourcesHeldBy(entity) is called: it reads the entity details
getFungibleResourcesHeldBy(c) ==
  /\ call[c].method = "getFungibleResourcesHeldBy"
  /\ call[c].threads[0].pc = "called"
  /\ call' = [call EXCEPT ![c] =
       AwaitRequest(@, 0, "entityState",
                    stateEntityDetailsRequest(<<@.entity>>))]
  /\ UNCHANGED gateway

\* the entity details arrive: the Global holdings are kept with their
\* amounts; without any the empty list is returned, else the information of
\* their resources is read
EntityStateArrives(c) ==
  /\ call[c].method = "getFungibleResourcesHeldBy"
  /\ call[c].threads[0].pc = "running"
  /\ call[c].threads[0].step = "entityState"
  /\ LET resp == GatewayEntityDetails(call[c].threads[0].req)
         entityState == resp.items[1]
         held == IF entityState.fungible_resources.defined
                 THEN ScanHoldings(entityState.fungible_resources.items, 1,
                        [resources |-> <<>>, amount_map |-> EmptyMap])
                 ELSE [resources |-> <<>>, amount_map |-> EmptyMap]
         cr == [call[c] EXCEPT !.amount_map = held.amount_map,
                               !.threads[0].req = NoReq]
     IN call' = [call EXCEPT ![c] =
          IF Len(held.resources) # 0
          THEN FanOut(cr, "getResourcesInformation", held.resources)
          ELSE Return(cr, <<>>)]
  /\ UNCHANGED gateway

\* ------------------------------------------------------------------------
\* The calls made and the gateway they meet
\* ------------------------------------------------------------------------
\* the addresses r<from>, r<from + 1>, ... that fill a list up to a length
FilledResources(list, length, from) ==
  list \o [i \in 1..(length - Len(list)) |->
            "r" \o NumberToString(from + i - 1)]

\* the ids #<from>#, #<from + 1>#, ... that fill a list up to a length
FilledIds(list, length, from) ==
  list \o [i \in 1..(length - Len(list)) |->
            "#" \o NumberToString(from + i - 1) \o "#"]

\* more addresses than two requests take, r1 and r2 among them twice
ManyResources ==
  FilledResources(<<"r2", "r1">>, EntityBatchSize, 7)
    \o FilledResources(<<"r2", "r3">>, EntityBatchSize, 7 + EntityBatchSize)
    \o <<"r1">>

\* more ids than one request takes, #1# among them twice
ManyIds ==
  FilledIds(<<"#1#", "#2#">>, IdBatchSize, 9) \o <<"#3#", "#1#">>

ResourceInputs ==
  {<<>>, <<"r1", "r3">>, <<"r1", "r4", "r2">>, ManyResources}

IdInputs == {<<>>, <<"#1#">>, <<"#1#", "#2#", "#3#">>, ManyIds}

FanCalls ==
  {[NewCall("getResourcesInformation") EXCEPT
      !.input = in, !.additional_metadata = {"tags"}] : in \in ResourceInputs}
  \cup {[NewCall("getNftOwners") EXCEPT !.input = in, !.resource = "r2"] :
          in \in IdInputs}
  \cup {[NewCall("getNonFungibleItemsFromIds") EXCEPT
           !.input = in, !.resource = "r2", !.at_ledger_state = v] :
          in \in IdInputs, v \in {0, 1}}

\* a second call running beside a fan-out call
SecondFanCall ==
  [NewCall("getResourcesInformation") EXCEPT
     !.input = FilledResources(<<"r1", "r2">>, EntityBatchSize, 7)
                 \o <<"r3">>]

HeldByCalls ==
  {[NewCall("getNonFungibleResourcesHeldBy") EXCEPT !.entity = Entity1]}

IdsHeldByCalls ==
  {[NewCall("getNonFungibleIdsHeldBy") EXCEPT
      !.entity = Entity1, !.resource = r] : r \in {"r1", "r2", "r3"}}

AllIdsCalls ==
  {[NewCall("getAllNonFungibleIds") EXCEPT
      !.resource = "r1", !.at_ledger_state = v] : v \in {0, 1}}

\* the stream is read from version 1 with every combination of the
\* optional arguments, and from version 3, where a first page can hold two
\* successful transactions, with a negative max_amount
StreamCalls ==
  {[NewCall("fullTransactionStream") EXCEPT
      !.from_state_version = 1, !.receipt_state_changes = rsc,
      !.entity_filter = f, !.max_amount = m] :
     rsc \in {Undefined, "true", "false"},
     f \in {NoFilter, [given |-> TRUE, addresses |-> {"account1"}]},
     m \in {Omitted, Given(0 - 1), Given(0), Given(1), Given(2), Given(3)}}
  \cup
  {[NewCall("fullTransactionStream") EXCEPT
      !.from_state_version = 3, !.max_amount = Given(0 - 1)]}

FungibleHeldByCalls ==
  {[NewCall("getFungibleResourcesHeldBy") EXCEPT !.entity = e] :
     e \in {"account1", "account2", "account3", "account4"}}

SubmitCalls ==
  {[NewCall("submitManifest") EXCEPT !.manifest = m] : m \in {"m1", "m2"}}

\* the resources of the three collection items: all different, or two items
\* of the same resource
Addressings ==
  {<<"r1", "r2", "r3">>, <<"r2", "r2", "r1">>, <<"r1", "r2", "r2">>}

DefaultGateway ==
  [state_version |-> 1, resource_of |-> <<"r1", "r2", "r3">>,
   items_per_page |-> 1, ids_per_page |-> [c \in Calls |-> 1],
   txs_per_page |-> 1, epoch |-> 1, tx_status |-> "Unknown"]

GwIdle ==
  /\ gateway = DefaultGateway
  /\ call = [c \in Calls |-> NoCall]

\* fan-out calls, alone or beside a second call
InitFanOut ==
  /\ gateway = DefaultGateway
  /\ \E first \in FanCalls :
       \E second \in {NoCall, SecondFanCall} :
         call = [c \in Calls |-> IF c = 1 THEN first ELSE second]

\* getNonFungibleResourcesHeldBy against every layout of the pages
InitHeldBy ==
  /\ \E a \in Addressings, ipp \in 1..MaxItemsPerPage, n \in 1..MaxIdsPerPage :
       gateway = [DefaultGateway EXCEPT
                    !.resource_of = a, !.items_per_page = ipp,
                    !.ids_per_page = [c \in Calls |-> n]]
  /\ \E first \in HeldByCalls :
       call = [c \in Calls |-> IF c = 1 THEN first ELSE NoCall]

\* getNonFungibleIdsHeldBy against every layout of the pages
InitIdsHeldBy ==
  /\ \E a \in Addressings, ipp \in 1..MaxItemsPerPage, n \in 1..MaxIdsPerPage :
       gateway = [DefaultGateway EXCEPT
                    !.resource_of = a, !.items_per_page = ipp,
                    !.ids_per_page = [c \in Calls |-> n]]
  /\ \E first \in IdsHeldByCalls :
       call = [c \in Calls |-> IF c = 1 THEN first ELSE NoCall]

InitAllIds ==
  /\ \E n \in 1..MaxIdsPerPage :
       gateway = [DefaultGateway EXCEPT
                    !.ids_per_page = [c \in Calls |-> n]]
  /\ \E first \in AllIdsCalls :
       call = [c \in Calls |-> IF c = 1 THEN first ELSE NoCall]

InitStream ==
  /\ \E n \in 1..MaxTxsPerPage :
       gateway = [DefaultGateway EXCEPT
                    !.state_version = MaxVersion, !.txs_per_page = n]
  /\ \E first \in StreamCalls :
       call = [c \in Calls |-> IF c = 1 THEN first ELSE NoCall]

\* submitManifest of a manifest, at one epoch or another
InitSubmit ==
  /\ \E e \in 1..MaxEpoch :
       gateway = [DefaultGateway EXCEPT !.epoch = e]
  /\ \E first \in SubmitCalls :
       call = [c \in Calls |-> IF c = 1 THEN first ELSE NoCall]

\* getFungibleResourcesHeldBy of an account
InitFungibleHeldBy ==
  /\ gateway = DefaultGateway
  /\ \E first \in FungibleHeldByCalls :
       call = [c \in Calls |-> IF c = 1 THEN first ELSE NoCall]

GwInit ==
  \/ InitFanOut
  \/ InitHeldBy
  \/ InitIdsHeldBy
  \/ InitAllIds
  \/ InitStream
  \/ InitSubmit
  \/ InitFungibleHeldBy

\* the same call made twice, side by side, against the same gateway; the
\* two getNonFungibleIdsHeldBy calls are served pages of a size of their own
InitTwice ==
  \/ /\ gateway = DefaultGateway
     /\ \E first \in FanCalls : call = [c \in Calls |-> first]
  \/ /\ \E a \in Addressings, ipp \in 1..MaxItemsPerPage,
           n \in 1..MaxIdsPerPage :
          gateway = [DefaultGateway EXCEPT
                       !.resource_of = a, !.items_per_page = ipp,
                       !.ids_per_page = [c \in Calls |-> n]]
     /\ \E first \in HeldByCalls : call = [c \in Calls |-> first]
  \/ /\ \E a \in Addressings, ipp \in 1..MaxItemsPerPage,
           n1 \in 1..MaxIdsPerPage, n2 \in 1..MaxIdsPerPage :
          gateway = [DefaultGateway EXCEPT
                       !.resource_of = a, !.items_per_page = ipp,
                       !.ids_per_page =
                          [c \in Calls |-> IF c = 1 THEN n1 ELSE n2]]
     /\ \E first \in IdsHeldByCalls : call = [c \in Calls |-> first]

\* ------------------------------------------------------------------------
\* Utils.ts: parseNonFungibleData on programmatic_json nodes
\* ------------------------------------------------------------------------
\* the largest number of elements, fields or entries of a node
MaxElems == 2

\* nodes without children
StringNode(v) == [kind |-> "String", field_name |-> Undefined, value |-> v]
U8Node(v) == [kind |-> "U8", field_name |-> Undefined, value |-> v]
Leaves == {StringNode("foo"), StringNode("5"), U8Node("5")}

\* the sequences of at most MaxElems leaves
LeafSeqs == UNION {[1..n -> Leaves] : n \in 0..MaxElems}

ArrayNode(elements) ==
  [kind |-> "Array", field_name |-> Undefined, elements |-> elements]
TupleNode(fields) ==
  [kind |-> "Tuple", field_name |-> Undefined, fields |-> fields]
EnumNode(type_name, variant_name, fields) ==
  [kind |-> "Enum", field_name |-> Undefined, type_name |-> type_name,
   variant_name |-> variant_name, fields |-> fields]
MapNode(key_type_name, value_type_name, entries) ==
  [kind |-> "Map", field_name |-> Undefined,
   key_type_name |-> key_type_name, value_type_name |-> value_type_name,
   entries |-> entries]

\* the entries of a map from one key
EntrySeqs ==
  UNION {[1..n -> {[key |-> StringNode("foo"), value |-> v] : v \in Leaves}] :
           n \in 0..MaxElems}

\* arrays, tuples, enums and maps of leaves
Containers ==
  {ArrayNode(s) : s \in LeafSeqs}
    \cup {TupleNode(s) : s \in LeafSeqs}
    \cup {EnumNode("Option", "Some", <<v>>) : v \in Leaves}
    \cup {EnumNode("Option", "None", <<>>)}
    \cup {EnumNode("Planet", "Mars", s) : s \in LeafSeqs}
    \cup {MapNode("String", "U8", e) : e \in EntrySeqs}
    \cup {MapNode(Undefined, Undefined, e) : e \in EntrySeqs}

\* arrays and tuples of one container
Nested ==
  {ArrayNode(<<v>>) : v \in Containers}
    \cup {TupleNode(<<v>>) : v \in Containers}

\* the nodes the parser is run on
ScryptoValues == Leaves \cup Containers \cup Nested

ParserIdle ==
  /\ parser_pc = "idle"
  /\ parser_in = <<>>
  /\ parser_out = <<>>

\* two nodes are about to be parsed
ParserInit ==
  /\ parser_pc = "called"
  /\ parser_in \in ScryptoValues \X ScryptoValues
  /\ parser_out = <<>>

\* parseNonFungibleData(data) on the first node and on the second
ParseNonFungibleData ==
  /\ parser_pc = "called"
  /\ parser_out' = <<parseNonFungibleData(parser_in[1]),
                     parseNonFungibleData(parser_in[2])>>
  /\ parser_pc' = "done"
  /\ UNCHANGED parser_in

\* ------------------------------------------------------------------------
\* ManifestBuilder: ManifestTypes.ts, Utils.ts, StringManifestBuilder.ts
\* ------------------------------------------------------------------------
\* the largest number of builder methods called on one builder
MaxBuilderCalls == 3

RECURSIVE JoinFrom(_, _, _)
\* Array.prototype.join from element i on
JoinFrom(elements, separator, i) ==
  IF i > Len(elements) THEN ""
  ELSE IF i = Len(elements) THEN elements[i]
  ELSE elements[i] \o separator \o JoinFrom(elements, separator, i + 1)

\* a join that puts nothing between the elements
JoinBare(elements, separator) == JoinFrom(elements, "", 1)

\* elements.join(separator)
Join(elements, separator) == JoinFrom(elements, separator, 1)

\* ManifestTypes
arrayToString(elements) == Join(elements, ", ")
manifestAddress(address) == "Address(\"" \o address \o "\")"
manifestAddressReservation(reservationName) ==
  "AddressReservation(\"" \o reservationName \o "\")"
manifestArray(typeName, content) ==
  "Array<" \o typeName \o ">(" \o arrayToString(content) \o ")"
manifestBucket(bucketName) == "Bucket(\"" \o bucketName \o "\")"
manifestDecimal(decimal) == "Decimal(\"" \o NumberToString(decimal) \o "\")"
manifestLocalId(id) == "NonFungibleLocalId(\"" \o id \o "\")"
manifestLocalIdArray(ids) ==
  manifestArray("NonFungibleLocalId",
                [i \in 1..Len(ids) |-> manifestLocalId(ids[i])])
\* a Map is the sequence of its entries in the order of their insertion
manifestMap(keyType, valueType, map) ==
  "Map<" \o keyType \o ", " \o valueType \o ">("
    \o arrayToString([i \in 1..Len(map) |->
                        map[i].key \o " => " \o map[i].value])
    \o ")"
manifestNamedAddress(addressName) == "NamedAddress(\"" \o addressName \o "\")"
manifestProof(proofName) == "Proof(\"" \o proofName \o "\")"
manifestString(str) == "\"" \o str \o "\""
manifestTuple(elements) == "Tuple(" \o arrayToString(elements) \o ")"

\* convertToDataMap: the keys of idDataMap are distinct, and so are their
\* manifest local ids
convertToDataMap(idDataMap) ==
  [i \in 1..Len(idDataMap) |->
     [key |-> manifestLocalId(idDataMap[i].key),
      value |-> manifestTuple(<<manifestTuple(idDataMap[i].value)>>)]]

\* convertToDataArray
convertToDataArray(dataArray) ==
  manifestArray("Tuple",
                [i \in 1..Len(dataArray) |->
                   manifestTuple(<<manifestTuple(dataArray[i])>>)])

\* argumentsString
argumentsString(args) == Join(args, "\n\t")

\* instruction
instruction(instructionName, instructionArguments) ==
  instructionName \o "\n\t" \o argumentsString(instructionArguments)
    \o "\n;"

\* this._instructions.push(instruction(name, args)), with the name and the
\* arguments kept beside the string
Push(builder, instructionName, instructionArguments) ==
  [builder EXCEPT
     !.instructions = Append(@, instruction(instructionName,
                                            instructionArguments)),
     !.emitted = Append(@, [name |-> instructionName,
                            args |-> instructionArguments])]

\* callMethod
CallMethodOn(builder, componentAddress, methodName, args) ==
  Push(builder, "CALL_METHOD",
       <<manifestAddress(componentAddress), manifestString(methodName)>>
         \o args)

\* takeFromWorktop
TakeFromWorktopOn(builder, resourceAddress, amount, bucketName) ==
  Push(builder, "TAKE_FROM_WORKTOP",
       <<manifestAddress(resourceAddress), manifestDecimal(amount),
         manifestBucket(bucketName)>>)

\* takeNonFungiblesFromWorktop
TakeNonFungiblesFromWorktopOn(builder, resourceAddress, ids, bucketName) ==
  Push(builder, "TAKE_NON_FUNGIBLES_FROM_WORKTOP",
       <<manifestAddress(resourceAddress), manifestLocalIdArray(ids),
         manifestBucket(bucketName)>>)

\* popFromAuthZone
PopFromAuthZoneOn(builder, proofName) ==
  Push(builder, "POP_FROM_AUTH_ZONE", <<manifestProof(proofName)>>)

\* the manifests a builder method is called with
BucketNames == {"bucket"}
Amounts == {120, 7}
MethodArgs == {<<>>, <<"1u64", manifestBucket("bucket")>>}
LocalIds == <<"#1#">>
RawInstructions == {"RAW TEXT"}
RoyaltyAmounts == {0, 7}
RecoveryDelays == {0, 5}
ReservationNames == {"", "reservation"}
IdDataMap ==
  <<[key |-> "#1#", value |-> <<"1u8", "\"a\"">>],
    [key |-> "#2#", value |-> <<>>]>>
DataArray == <<(<<"1u8", "\"a\"">>), (<<>>)>>

\* new StringManifestBuilder()
NewBuilder == [instructions |-> <<>>, emitted |-> <<>>]

MbIdle ==
  /\ mb_pc = "idle"
  /\ mb_builder = NewBuilder
  /\ mb_before = NewBuilder
  /\ mb_output = ""
  /\ mb_calls = 0

MbInit ==
  /\ mb_pc = "new"
  /\ mb_builder = NewBuilder
  /\ mb_before = NewBuilder
  /\ mb_output = ""
  /\ mb_calls = 0

\* a builder method ran: the builder before the call is kept for comparison
Called(after) ==
  /\ mb_calls < MaxBuilderCalls
  /\ mb_builder' = after
  /\ mb_before' = mb_builder
  /\ mb_calls' = mb_calls + 1
  /\ mb_pc' = "called"
  /\ UNCHANGED mb_output

\* fungibleBucket(account, bucket, bucketName)
FungibleBucket ==
  \E amount \in Amounts, bucketName \in BucketNames :
    Called(TakeFromWorktopOn(
             CallMethodOn(mb_builder, "account", "withdraw",
                          <<manifestAddress("xrd"), manifestDecimal(amount)>>),
             "xrd", amount, bucketName))

\* nonFungibleBucket(account, bucket, bucketName)
NonFungibleBucket ==
  Called(TakeNonFungiblesFromWorktopOn(
           CallMethodOn(mb_builder, "account", "withdraw_non_fungibles",
                        <<manifestAddress("nft"),
                          manifestLocalIdArray(LocalIds)>>),
           "nft", LocalIds, "bucket"))

\* proofOfAmount(account, resourceAddress, amount, proofName)
ProofOfAmount ==
  Called(PopFromAuthZoneOn(
           CallMethodOn(mb_builder, "account", "create_proof_of_amount",
                        <<manifestAddress("xrd"), manifestDecimal(7)>>),
           "proof"))

\* nonFungibleProof(account, nonFungibles, proofName)
NonFungibleProof ==
  Called(PopFromAuthZoneOn(
           CallMethodOn(mb_builder, "account",
                        "create_proof_of_non_fungibles",
                        <<manifestAddress("nft"),
                          manifestLocalIdArray(LocalIds)>>),
           "proof"))

\* addRawInstruction(instruction): the text goes into the list as it is,
\* recorded without a name
AddRawInstruction ==
  \E text \in RawInstructions :
    Called([mb_builder EXCEPT
              !.instructions = Append(@, text),
              !.emitted = Append(@, [name |-> "", args |-> <<>>])])

\* allocateGlobalAddress(address, blueprintName, reservationName,
\* addressName)
AllocateGlobalAddress ==
  Called(Push(mb_builder, "ALLOCATE_GLOBAL_ADDRESS",
              <<manifestAddress("pkg"), manifestString("Bp"),
                manifestAddressReservation("reservation"),
                manifestNamedAddress("named")>>))

\* assertWorktopContains(address, amount)
AssertWorktopContains ==
  Called(Push(mb_builder, "ASSERT_WORKTOP_CONTAINS",
              <<manifestAddress("xrd"), manifestDecimal(7)>>))

\* assertWorktopContainsAny(address)
AssertWorktopContainsAny ==
  Called(Push(mb_builder, "ASSERT_WORKTOP_CONTAINS",
              <<manifestAddress("xrd")>>))

\* assertWorktopContainsNonFungibles(address, ids)
AssertWorktopContainsNonFungibles ==
  Called(Push(mb_builder, "ASSERT_WORKTOP_CONTAINS_NON_FUNGIBLES",
              <<manifestAddress("nft"), manifestLocalIdArray(LocalIds)>>))

\* burnResource(bucketName)
BurnResource ==
  Called(Push(mb_builder, "BURN_RESOURCE", <<manifestBucket("bucket")>>))

\* callFunction(packageAddress, blueprintName, functionName, args)
CallFunction ==
  \E args \in MethodArgs :
    Called(Push(mb_builder, "CALL_FUNCTION",
                <<manifestAddress("pkg"), manifestString("Bp"),
                  manifestString("new")>> \o args))

\* callMethod(componentAddress, methodName, args)
CallMethod ==
  \E args \in MethodArgs :
    Called(CallMethodOn(mb_builder, "component", "bid", args))

\* depositBatch(account)
DepositBatch ==
  Called(CallMethodOn(mb_builder, "account", "deposit_batch",
                      <<"Expression(\"ENTIRE_WORKTOP\")">>))

\* lockFee(account, amount)
LockFee ==
  \E amount \in Amounts :
    Called(CallMethodOn(mb_builder, "account", "lock_fee",
                        <<manifestDecimal(amount)>>))

\* takeFromWorktop(resourceAddress, amount, bucketName)
TakeFromWorktop ==
  \E amount \in Amounts, bucketName \in BucketNames :
    Called(TakeFromWorktopOn(mb_builder, "xrd", amount, bucketName))

\* takeAllFromWorktop(resourceAddress, bucketName)
TakeAllFromWorktop ==
  Called(Push(mb_builder, "TAKE_ALL_FROM_WORKTOP",
              <<manifestAddress("xrd"), manifestBucket("bucket")>>))

\* takeNonFungiblesFromWorktop(resourceAddress, ids, bucketName)
TakeNonFungiblesFromWorktop ==
  Called(TakeNonFungiblesFromWorktopOn(mb_builder, "nft", LocalIds,
                                       "bucket"))

\* claimComponentRoyalties(componentAddress)
ClaimComponentRoyalties ==
  Called(Push(mb_builder, "CLAIM_COMPONENT_ROYALTIES",
              <<manifestAddress("component")>>))

\* claimPackageRoyalties(packageAddress)
ClaimPackageRoyalties ==
  Called(Push(mb_builder, "CLAIM_PACKAGE_ROYALTIES",
              <<manifestAddress("pkg")>>))

\* cloneProof(originProofName, clonedProofName)
CloneProof ==
  Called(Push(mb_builder, "CLONE_PROOF",
              <<manifestProof("proof"), manifestProof("clone")>>))

\* createAccessController(primaryRole, recoveryRole, confirmationRole,
\* timeRecoveryDelay, addressReservationName): a delay of 0 or none and a
\* name that is empty or missing add no argument
CreateAccessController ==
  \E timeRecoveryDelay \in RecoveryDelays :
    \E addressReservationName \in ReservationNames :
      Called(Push(mb_builder, "CREATE_ACCESS_CONTROLLER",
                  <<manifestTuple(<<"primary", "recovery", "confirmation">>)>>
                    \o (IF timeRecoveryDelay # 0
                        THEN <<"Some(" \o NumberToString(timeRecoveryDelay)
                                 \o "u64)">>
                        ELSE <<>>)
                    \o (IF addressReservationName # ""
                        THEN <<"Some("
                                 \o manifestAddressReservation(
                                      addressReservationName)
                                 \o ")">>
                        ELSE <<>>)))

\* createAccount()
CreateAccount == Called(Push(mb_builder, "CREATE_ACCOUNT", <<>>))

\* createIdentity()
CreateIdentity == Called(Push(mb_builder, "CREATE_IDENTITY", <<>>))

\* createProofFromAuthZoneOfAll(resourceAddress, proofName)
CreateProofFromAuthZoneOfAll ==
  Called(Push(mb_builder, "CREATE_PROOF_FROM_AUTH_ZONE_OF_ALL",
              <<manifestAddress("xrd"), manifestProof("proof")>>))

\* createProofFromAuthZoneOfAmount(resourceAddress, amount, proofName)
CreateProofFromAuthZoneOfAmount ==
  Called(Push(mb_builder, "CREATE_PROOF_FROM_AUTH_ZONE_OF_AMOUNT",
              <<manifestAddress("xrd"), manifestDecimal(7),
                manifestProof("proof")>>))

\* createProofFromAuthZoneOfNonFungibles(resourceAddress, ids, proofName)
CreateProofFromAuthZoneOfNonFungibles ==
  Called(Push(mb_builder, "CREATE_PROOF_FROM_AUTH_ZONE_OF_NON_FUNGIBLES",
              <<manifestAddress("nft"), manifestLocalIdArray(LocalIds),
                manifestProof("proof")>>))

\* createProofFromBucketOfAll(bucketName, proofName): the instruction is
\* named after the auth zone
CreateProofFromBucketOfAll ==
  Called(Push(mb_builder, "CREATE_PROOF_FROM_AUTH_ZONE_OF_ALL",
              <<manifestBucket("bucket"), manifestProof("proof")>>))

\* createProofFromBucketOfAmount(bucketName, amount, proofName)
CreateProofFromBucketOfAmount ==
  Called(Push(mb_builder, "CREATE_PROOF_FROM_AUTH_ZONE_OF_ALL",
              <<manifestBucket("bucket"), manifestDecimal(7),
                manifestProof("proof")>>))

\* createProofFromBucketOfNonFungibles(bucketName, ids, proofName)
CreateProofFromBucketOfNonFungibles ==
  Called(Push(mb_builder, "CREATE_PROOF_FROM_AUTH_ZONE_OF_ALL",
              <<manifestBucket("bucket"), manifestLocalIdArray(LocalIds),
                manifestProof("proof")>>))

\* dropAllProofs()
DropAllProofs == Called(Push(mb_builder, "DROP_ALL_PROOFS", <<>>))

\* dropAuthZoneProofs()
DropAuthZoneProofs == Called(Push(mb_builder, "DROP_AUTH_ZONE_PROOFS", <<>>))

\* dropAuthZoneRegularProofs()
DropAuthZoneRegularProofs ==
  Called(Push(mb_builder, "DROP_AUTH_ZONE_REGULAR_PROOFS", <<>>))

\* dropAuthZoneSignatureProofs()
DropAuthZoneSignatureProofs ==
  Called(Push(mb_builder, "DROP_AUTH_ZONE_SIGNATURE_PROOFS", <<>>))

\* dropNamedProofs()
DropNamedProofs == Called(Push(mb_builder, "DROP_NAMED_PROOFS", <<>>))

\* lockComponentRoyalty(componentAddress, methodName)
LockComponentRoyalty ==
  Called(Push(mb_builder, "LOCK_COMPONENT_ROYALTY",
              <<manifestAddress("component"), manifestString("bid")>>))

\* lockMetadata(entityAddress, fieldName)
LockMetadata ==
  Called(Push(mb_builder, "LOCK_METADATA",
              <<manifestAddress("component"), manifestString("name")>>))

\* lockOwnerRole(entityAddress)
LockOwnerRole ==
  Called(Push(mb_builder, "LOCK_OWNER_ROLE",
              <<manifestAddress("component")>>))

\* mintFungible(resourceAddress, amount)
MintFungible ==
  Called(Push(mb_builder, "MINT_FUNGIBLE",
              <<manifestAddress("xrd"), manifestDecimal(7)>>))

\* mintNonFungible(resourceAddress, idDataMap)
MintNonFungible ==
  Called(Push(mb_builder, "MINT_NON_FUNGIBLE",
              <<manifestAddress("nft"),
                manifestMap("NonFungibleLocalId", "Tuple",
                            convertToDataMap(IdDataMap))>>))

\* mintRuidNonFungible(resourceAddress, dataArray)
MintRuidNonFungible ==
  Called(Push(mb_builder, "MINT_RUID_NON_FUNGIBLE",
              <<manifestAddress("nft"), convertToDataArray(DataArray)>>))

\* popFromAuthZone(proofName)
PopFromAuthZone == Called(PopFromAuthZoneOn(mb_builder, "proof"))

\* pushToAuthZone(proofName)
PushToAuthZone ==
  Called(Push(mb_builder, "PUSH_TO_AUTH_ZONE", <<manifestProof("proof")>>))

\* recall(vaultAddress, amount)
Recall ==
  Called(Push(mb_builder, "RECALL_FROM_VAULT",
              <<manifestAddress("vault"), manifestDecimal(7)>>))

\* recallNonFungibles(vaultAddress, ids)
RecallNonFungibles ==
  Called(Push(mb_builder, "RECALL_NON_FUNGIBLES_FROM_VAULT",
              <<manifestAddress("vault"), manifestLocalIdArray(LocalIds)>>))

\* removeMetadata(resourceAddress, fieldName)
RemoveMetadata ==
  Called(Push(mb_builder, "REMOVE_METADATA",
              <<manifestAddress("xrd"), manifestString("name")>>))

\* returnToWorktop(bucketName)
ReturnToWorktop ==
  Called(Push(mb_builder, "RETURN_TO_WORKTOP", <<manifestBucket("bucket")>>))

\* setComponentRoyalty(componentAddress, methodName, amount): the royalty
\* of an amount other than "0" is a plain string, its ${amount} is not
\* filled in
SetComponentRoyalty ==
  \E amount \in RoyaltyAmounts :
    Called(Push(mb_builder, "SET_COMPONENT_ROYALTY",
                <<manifestAddress("component"), manifestString("bid"),
                  IF NumberToString(amount) = "0"
                  THEN "Enum<RoyaltyAmount::Free>()"
                  ELSE "Enum<RoyaltyAmount::Xrd>(${amount})">>))

\* build()
Build ==
  /\ mb_pc \in {"new", "called", "built"}
  /\ mb_output' = Join(mb_builder.instructions, "\n")
  /\ mb_pc' = "built"
  /\ mb_before' = mb_builder
  /\ UNCHANGED <<mb_builder, mb_calls>>

\* ------------------------------------------------------------------------
\* Types: NFT.ts, NFTSet.ts, NFTMap.ts
\* ------------------------------------------------------------------------
\* the largest number of operations made on the two containers
MaxNftOps == 3

\* new NFT(resourceAddress, localId)
NFT(resourceAddress, localId) ==
  [resourceAddress |-> resourceAddress, localId |-> localId]

\* NFT.globalId
globalId(nft) == nft.resourceAddress \o ":" \o nft.localId

\* the first position of the separator in a string, 0 when it has none
IndexOf(string, separator) ==
  LET at == {i \in 1..Len(string) : SubSeq(string, i, i) = separator}
  IN  IF at = {} THEN 0 ELSE CHOOSE i \in at : \A j \in at : i <= j

\* String.prototype.split with a separator of one character
RECURSIVE split(_, _)
split(string, separator) ==
  LET i == IndexOf(string, separator)
  IN  IF i = 0
        THEN <<string>>
        ELSE <<SubSeq(string, 1, i - 1)>> \o
               split(SubSeq(string, i + 1, Len(string)), separator)

\* parts[i] of an array: undefined past its end
At(parts, i) == IF i + 1 <= Len(parts) THEN parts[i + 1] ELSE Undefined

\* value !== null
Null == "null"
NotNull(value) == value # Null

\* NFT.fromGlobalId
fromGlobalId(id) ==
  LET parts == split(id, ":")
      resourceAddress == At(parts, 0)
      localId == At(parts, 1)
  IN  IF NotNull(resourceAddress) /\ NotNull(localId)
        THEN [kind |-> "returned", nft |-> NFT(resourceAddress, localId)]
        ELSE [kind |-> "thrown",
              message |->
                "The Global Id input doesn't have the right format!"]

\* NFT.toNonFungibles: { address: this._localId, ids: [this.localId()] }
toNonFungibles(nft) == [address |-> nft.localId, ids |-> <<nft.localId>>]

\* NFT.equals
equals(nft, other) == globalId(nft) = globalId(other)

\* a key made of the resource address alone
toSetItemAddressOnly(nft) == nft.resourceAddress

\* NFTSet.toSetItem, NFTMap.toMapKey
toSetItem(nft) == globalId(nft)

\* the NFTs the containers are used with; the first two differ in both
\* fields and have the same global id
NFTs == {NFT("a", "b:c"), NFT("a:b", "c"), NFT("a", "c")}
MapValues == {1, 2}

\* the strings fromGlobalId is called with: every string of at most
\* MaxIdLen characters of the alphabet
MaxIdLen == 4
Alphabet == {"a", "c", ":"}
RECURSIVE StringsOfLength(_)
StringsOfLength(n) ==
  IF n = 0 THEN {""}
  ELSE {string \o char : string \in StringsOfLength(n - 1), char \in Alphabet}
GlobalIds == UNION {StringsOfLength(n) : n \in 0..MaxIdLen}

\* the addresses and local ids of the NFTs toNonFungibles is called on
Fields == UNION {StringsOfLength(n) : n \in 0..2}
NoNftCall == [op |-> "none"]

\* NFTSet.has, NFTSet.size
SetHas(set, nft) == toSetItem(nft) \in set
SetSize(set) == Cardinality(set)

\* NFTMap.has, NFTMap.size, NFTMap.get
MapHas(map, nft) == toSetItem(nft) \in DOMAIN map
MapSize(map) == Cardinality(DOMAIN map)

\* Map.prototype.delete
WithoutKey(map, key) == [k \in DOMAIN map \ {key} |-> map[k]]

NftIdle ==
  /\ nft_pc = "idle"
  /\ nft_set = {}
  /\ nft_map = << >>
  /\ nft_log = <<>>
  /\ nft_call = NoNftCall

\* new NFTSet(), new NFTMap()
NftInit ==
  /\ nft_pc = "new"
  /\ nft_set = {}
  /\ nft_map = << >>
  /\ nft_log = <<>>
  /\ nft_call = NoNftCall

\* an operation was made on a container and is written to the log
Logged(container, op, nft) ==
  /\ nft_pc # "idle"
  /\ Len(nft_log) < MaxNftOps
  /\ nft_log' = Append(nft_log, [container |-> container, op |-> op,
                                 nft |-> nft])
  /\ nft_pc' = "used"
  /\ nft_call' = NoNftCall

\* NFTSet.add
NFTSetAdd ==
  \E nft \in NFTs :
    /\ Logged("set", "add", nft)
    /\ nft_set' = nft_set \cup {toSetItem(nft)}
    /\ UNCHANGED nft_map

\* NFTSet.delete
NFTSetDelete ==
  \E nft \in NFTs :
    /\ Logged("set", "delete", nft)
    /\ nft_set' = nft_set \ {toSetItem(nft)}
    /\ UNCHANGED nft_map

\* NFTSet.clear
NFTSetClear ==
  /\ Logged("set", "clear", NFT("", ""))
  /\ nft_set' = {}
  /\ UNCHANGED nft_map

\* NFTMap.set
NFTMapSet ==
  \E nft \in NFTs, value \in MapValues :
    /\ Logged("map", "add", nft)
    /\ nft_map' = (toSetItem(nft) :> value) @@ nft_map
    /\ UNCHANGED nft_set

\* NFTMap.delete
NFTMapDelete ==
  \E nft \in NFTs :
    /\ Logged("map", "delete", nft)
    /\ nft_map' = WithoutKey(nft_map, toSetItem(nft))
    /\ UNCHANGED nft_set

\* NFTMap.clear
NFTMapClear ==
  /\ Logged("map", "clear", NFT("", ""))
  /\ nft_map' = << >>
  /\ UNCHANGED nft_set


\* a call that changes neither container
NftCalled(op, input, output) ==
  /\ nft_pc # "idle"
  /\ nft_call' = [op |-> op, input |-> input, output |-> output]
  /\ UNCHANGED <<nft_pc, nft_set, nft_map, nft_log>>

\* NFT.fromGlobalId(globalId)
NFTFromGlobalId ==
  \E id \in GlobalIds : NftCalled("fromGlobalId", id, fromGlobalId(id))

\* new NFT(resourceAddress, localId).toNonFungibles()
NFTToNonFungibles ==
  \E resourceAddress \in Fields, localId \in Fields :
    NftCalled("toNonFungibles", NFT(resourceAddress, localId),
              toNonFungibles(NFT(resourceAddress, localId)))

\* NFTSet.toArray and NFTSet.forEach: the NFTs handed back (in the order
\* of insertion, which the model does not keep)
NFTSetToArray ==
  NftCalled("NFTSet.toArray", nft_set,
            {fromGlobalId(item).nft : item \in nft_set})

\* NFTMap.toArray and NFTMap.forEach: the pairs handed back
NFTMapToArray ==
  NftCalled("NFTMap.toArray", nft_map,
            {<<fromGlobalId(key).nft, nft_map[key]>> : key \in DOMAIN nft_map})
\* ------------------------------------------------------------------------
\* WalletInteractor: WalletInterface.sendTransaction, withTimeoutAndUpdate,
\* WalletResult.ts
\* ------------------------------------------------------------------------
\* errors: the class the error was constructed with, the prototype it ends
\* up with, its name and its message
PlainError(message) ==
  [class |-> "Error", prototype |-> "Error", name |-> "Error",
   message |-> message]

\* new TransactionTimeoutError(message)
TransactionTimeoutError(message) ==
  [class |-> "TransactionTimeoutError",
   prototype |-> "TransactionTimeoutError",
   name |-> "TransactionTimeoutError", message |-> message]

\* new ManifestError(message): the constructor sets the prototype of the
\* object to TransactionTimeoutError.prototype
ManifestError(message) ==
  [class |-> "ManifestError", prototype |-> "TransactionTimeoutError",
   name |-> "TransactionManifestError", message |-> message]

\* error instanceof C: C.prototype is on the prototype chain of the error
InstanceOf(error, class) ==
  \/ error.prototype = class
  \/ class = "Error"

\* `${error}`: Error.prototype.toString
ErrorToString(error) ==
  IF error.message = "" THEN error.name
  ELSE error.name \o ": " \o error.message

\* withTimeoutAndUpdate: what the timer rejects the race with
TimeoutRejection == PlainError("Timeout")

\* the WalletResult of a failure
Failed(message) == [outcome |-> "FAILED", message |-> message]

\* error_message, or "Unknown error" if it is missing or empty
MessageOrUnknown(error_message) ==
  IF Truthy(error_message) THEN error_message ELSE "Unknown error"

\* the catch block of sendTransaction
CatchResult(error) ==
  IF InstanceOf(error, "TransactionTimeoutError")
    THEN Failed("Transaction timed out")
  ELSE IF InstanceOf(error, "ManifestError")
    THEN Failed("Manifest error: " \o error.message)
  ELSE Failed("Unknown error: " \o ErrorToString(error))

\* what the wallet interaction settles with: a Result (err or ok) or a
\* rejection
WalletOutcomes ==
  {[kind |-> "err", message |-> "rejected by user"],
   [kind |-> "err", message |-> Undefined],
   [kind |-> "ok", transactionIntentHash |-> "txid_1"],
   [kind |-> "rejected", error |-> PlainError("wallet unavailable")],
   [kind |-> "rejected", error |-> ManifestError("bad manifest")],
   [kind |-> "rejected",
    error |-> TransactionTimeoutError("Transaction has timed out")]}

\* what getCommittedDetails settles with
DetailsOutcomes ==
  {[kind |-> "response", transaction_status |-> "CommittedSuccess",
    error_message |-> Undefined],
   [kind |-> "response", transaction_status |-> "CommittedFailure",
    error_message |-> "out of funds"],
   [kind |-> "response", transaction_status |-> "CommittedFailure",
    error_message |-> Undefined],
   [kind |-> "rejected", error |-> PlainError("gateway down")]}

\* what the onSuccess callback does: it returns a promise that resolves or
\* rejects, or it throws before it returns one
OnSuccessOutcomes ==
  {[kind |-> "resolved", result |-> [outcome |-> "SUCCESS",
                                    message |-> "done"]],
   [kind |-> "rejected", error |-> ManifestError("bad manifest")],
   [kind |-> "thrown", error |-> ManifestError("bad manifest")]}

Manifests == {"CALL_METHOD\n;", ""}
Messages == {"bid", ""}
NoResult == [outcome |-> "none", message |-> ""]
NoCaught == [class |-> "none", prototype |-> "none", name |-> "none",
             message |-> ""]

WiIdle ==
  /\ wi_pc = "idle"
  /\ wi_manifest = Undefined
  /\ wi_message = Undefined
  /\ wi_debugMode = FALSE
  /\ wi_timer = "none"
  /\ wi_timed_out = FALSE
  /\ wi_result = NoResult
  /\ wi_caught = NoCaught

WiInit ==
  /\ wi_pc = "new"
  /\ wi_manifest = Undefined
  /\ wi_message = Undefined
  /\ wi_debugMode \in BOOLEAN
  /\ wi_timer = "none"
  /\ wi_timed_out = FALSE
  /\ wi_result = NoResult
  /\ wi_caught = NoCaught

\* sendTransaction resolves
WiResolve(result) ==
  /\ wi_pc' = "resolved"
  /\ wi_result' = result
  /\ UNCHANGED wi_caught

\* the catch block of sendTransaction runs and its result is returned
WiCatch(error) ==
  /\ wi_pc' = "resolved"
  /\ wi_result' = CatchResult(error)
  /\ wi_caught' = error

\* sendTransaction: the wallet request is sent and raced against the timer
sendTransaction ==
  /\ wi_pc = "new"
  /\ \E manifest \in Manifests : wi_manifest' = manifest
  /\ \E message \in Messages : wi_message' = message
  /\ wi_pc' = "racing"
  /\ wi_timer' = "armed"
  /\ UNCHANGED <<wi_debugMode, wi_timed_out, wi_result, wi_caught>>

\* the wallet interaction completes before the timer fires
WalletCompletes ==
  /\ wi_pc = "racing"
  /\ \E settled \in WalletOutcomes :
       CASE settled.kind = "err" ->
              WiResolve(Failed("Something went wrong: "
                                  \o MessageOrUnknown(settled.message)))
         [] settled.kind = "ok" ->
              /\ wi_pc' = "details"
              /\ UNCHANGED <<wi_result, wi_caught>>
         [] OTHER -> WiCatch(settled.error)
  /\ UNCHANGED <<wi_manifest, wi_message, wi_debugMode, wi_timer,
                 wi_timed_out>>

\* setTimeout callback of withTimeoutAndUpdate: rejects the race if it is
\* not settled yet; the timer is never cleared, so it also fires later
TimeoutFires ==
  /\ wi_timer = "armed"
  /\ wi_timer' = "fired"
  /\ IF wi_pc = "racing"
       THEN /\ WiCatch(TimeoutRejection)
            /\ wi_timed_out' = TRUE
       ELSE UNCHANGED <<wi_pc, wi_result, wi_timed_out, wi_caught>>
  /\ UNCHANGED <<wi_manifest, wi_message, wi_debugMode>>

\* getCommittedDetails settles; on CommittedSuccess onSuccess is called:
\* it throws, or it returns a promise that sendTransaction returns as it is
CommittedDetailsSettle ==
  /\ wi_pc = "details"
  /\ \E settled \in DetailsOutcomes :
       CASE settled.kind = "rejected" -> WiCatch(settled.error)
         [] settled.transaction_status = "CommittedSuccess" ->
              \E done \in OnSuccessOutcomes :
                IF done.kind = "thrown" THEN WiCatch(done.error)
                ELSE /\ wi_pc' = "onSuccess"
                     /\ UNCHANGED <<wi_result, wi_caught>>
         [] OTHER ->
              WiResolve(Failed("Something went wrong: "
                                  \o MessageOrUnknown(settled.error_message)))
  /\ UNCHANGED <<wi_manifest, wi_message, wi_debugMode, wi_timer,
                 wi_timed_out>>

\* the promise onSuccess returned settles, and sendTransaction with it: a
\* rejection passes the catch block by
OnSuccessSettles ==
  /\ wi_pc = "onSuccess"
  /\ \E done \in OnSuccessOutcomes :
       /\ done.kind # "thrown"
       /\ IF done.kind = "resolved" THEN WiResolve(done.result)
          ELSE /\ wi_pc' = "rejected"
               /\ wi_result' = [outcome |-> "rejected",
                                message |-> done.error.message]
               /\ UNCHANGED wi_caught
  /\ UNCHANGED <<wi_manifest, wi_message, wi_debugMode, wi_timer,
                 wi_timed_out>>

\* ------------------------------------------------------------------------
\* GatewayProcessor.ts: the constructor and the request helpers, one
\* processor built with any arguments and one request at a time
\* ------------------------------------------------------------------------
\* the largest number of attempts followed for one request
MaxAttempts == 32

\* arg ? arg : default
OrDefault(arg, default) ==
  IF arg.given /\ arg.value # 0 THEN arg.value ELSE default

\* the arguments the processor is constructed with
MaxLoopsArgs == {Omitted, Given(0), Given(0 - 1), Given(1), Given(2), Given(3)}
ConcurrencyLimitArgs == {Omitted, Given(0), Given(2)}

\* the methods that call the gateway, each through withMaxLoops with
\* this._maxLoops
RequestHelpers ==
  {"ledgerState", "entityDetails", "getCommittedDetails",
   "keyValueStoreData", "getEntityCollections", "getEntityNFTsInVault",
   "nonFungibleIds", "transactionStream", "getNonFungibleData",
   "getEntityLocation", "submitTransaction", "getCurrentEpoch",
   "getTransactionStatus"}

GpIdle ==
  /\ gp_pc = "idle"
  /\ gp_args = [maxLoops |-> Omitted, concurrencyLimit |-> Omitted]
  /\ gp_maxLoops = 0
  /\ gp_concurrencyLimit = 0
  /\ gp_helper = "none"
  /\ gp_loop_count = 0
  /\ gp_attempts = 0

\* new GatewayProcessor(gatewayApi, maxLoops, concurrencyLimit)
GpInit ==
  /\ gp_pc = "ready"
  /\ \E m \in MaxLoopsArgs, l \in ConcurrencyLimitArgs :
       /\ gp_args = [maxLoops |-> m, concurrencyLimit |-> l]
       /\ gp_maxLoops = OrDefault(m, DefaultMaxLoops)
       /\ gp_concurrencyLimit = OrDefault(l, DefaultConcurrencyLimit)
  /\ gp_helper = "none"
  /\ gp_loop_count = 0
  /\ gp_attempts = 0

\* a request helper is called: withMaxLoops(..., this._maxLoops) starts
GpRequest ==
  /\ gp_pc \in {"ready", "returned", "thrown"}
  /\ \E helper \in RequestHelpers : gp_helper' = helper
  /\ gp_pc' = "try"
  /\ gp_loop_count' = 0
  /\ gp_attempts' = 0
  /\ UNCHANGED <<gp_args, gp_maxLoops, gp_concurrencyLimit>>

\* the gateway answers the attempt
GpAttemptResolves ==
  /\ gp_pc = "try"
  /\ gp_attempts < MaxAttempts
  /\ gp_attempts' = gp_attempts + 1
  /\ gp_pc' = "returned"
  /\ UNCHANGED <<gp_args, gp_maxLoops, gp_concurrencyLimit, gp_helper,
                 gp_loop_count>>

\* the attempt fails: the catch block of withMaxLoops counts it and gives
\* up or waits
GpAttemptRejects ==
  /\ gp_pc = "try"
  /\ gp_attempts < MaxAttempts
  /\ gp_attempts' = gp_attempts + 1
  /\ gp_loop_count' = gp_loop_count + 1
  /\ gp_pc' = IF CatchGivesUp(gp_loop_count, gp_maxLoops) THEN "thrown"
              ELSE "wait"
  /\ UNCHANGED <<gp_args, gp_maxLoops, gp_concurrencyLimit, gp_helper>>

\* the 500 ms timer fires
GpTimerFires ==
  /\ gp_pc = "wait"
  /\ gp_pc' = "try"
  /\ UNCHANGED <<gp_args, gp_maxLoops, gp_concurrencyLimit, gp_helper,
                 gp_loop_count, gp_attempts>>


\* ------------------------------------------------------------------------
\* WalletInterface: the account and the caches of its holdings
\* (src/unnamed/part_006). The wallet-data handler and the update methods
\* are async: each runs up to its next await in one step, the gateway
\* answers the fetches in flight in any order, and an async function whose
\* awaited call has settled goes on in a callback of its own, after which
\* other callbacks may have run.
\* ------------------------------------------------------------------------

MaxWalletEvents == 2
MaxUpdateCalls == 1

\* this._account = null
NoAccount == Null
Accounts == {"account1", "account2"}

\* walletData.accounts
WalletAccounts == {<<>>, <<"account1">>, <<"account2">>}

\* the trackedNonFungibles argument of the constructor
TrackedArgs == {{}, {"nft1"}}
NonFungibleResources == {"nft1"}

\* what the gateway answers: getFungibleResourcesHeldBy(account), as the
\* map from address to amount_held that updateTokens builds of it
FungiblesHeldBy(account) ==
  IF account = "account1" THEN ("xrd" :> 10) @@ ("r1" :> 1)
                          ELSE ("xrd" :> 20)

\* getNonFungibleIdsHeldBy(account, resource)
NonFungibleIdsHeldBy(account, resource) ==
  CASE account = "account1" /\ resource = "nft1" -> {"#1#", "#2#"}
    [] account = "account2" /\ resource = "nft1" -> {"#3#"}
    [] OTHER -> {}

\* getNonFungibleItemsFromIds(resource, ids), as the map from id to item
\* that updateNonFungible builds of it
NonFungibleItems(resource, ids) ==
  [id \in ids |-> [id |-> id, resource |-> resource]]

\* a gateway fetch in flight: the public call or the wallet-data handler it
\* belongs to (0 for none), what is fetched, and the arguments it was
\* started with
Fetch(caller, handler, kind, account, resource) ==
  [call |-> caller, handler |-> handler, kind |-> kind, account |-> account,
   resource |-> resource, ids |-> {}]

\* a wallet-data handler whose awaited method has settled: the rest of the
\* handler is queued and runs after the callbacks queued before it
Queued(handler, awaited) == [handler |-> handler, awaited |-> awaited]

WcIdle ==
  /\ wc_account = NoAccount
  /\ wc_fungibles = EmptyMap
  /\ wc_nonFungibles = EmptyMap
  /\ wc_trackedNonFungibles = {}
  /\ wc_xrdAddress = ""
  /\ wc_pending = {}
  /\ wc_queued = {}
  /\ wc_rejected = {}
  /\ wc_events = 0
  /\ wc_calls = 0

\* new WalletInterface(processor, toolkit, withRola, trackedNonFungibles)
WcInit ==
  /\ wc_account = NoAccount
  /\ wc_fungibles = EmptyMap
  /\ wc_nonFungibles = EmptyMap
  /\ wc_trackedNonFungibles \in TrackedArgs
  /\ wc_xrdAddress = ""
  /\ wc_pending = {}
  /\ wc_queued = {}
  /\ wc_rejected = {}
  /\ wc_events = 0
  /\ wc_calls = 0

\* updateNonFungibles() up to its await: one updateNonFungible per tracked
\* resource, each fetching for the account that is current now
StartNonFungibles(caller, handler) ==
  IF wc_account # NoAccount
    THEN {Fetch(caller, handler, "ids", wc_account, resource) :
            resource \in wc_trackedNonFungibles}
    ELSE {}

\* the handler of walletData$ up to its first await
WalletDataArrives ==
  /\ wc_events < MaxWalletEvents
  /\ wc_events' = wc_events + 1
  /\ \E accounts \in WalletAccounts :
       IF Len(accounts) = 0
         THEN /\ wc_fungibles' = EmptyMap
              /\ wc_nonFungibles' = EmptyMap
              /\ wc_account' = NoAccount
              /\ UNCHANGED wc_pending
         ELSE /\ wc_account' = accounts[1]
              /\ wc_pending' =
                   wc_pending \cup
                     {Fetch(0, wc_events + 1, "fungibles", accounts[1], "")}
              /\ UNCHANGED <<wc_fungibles, wc_nonFungibles>>
  /\ UNCHANGED <<wc_trackedNonFungibles, wc_xrdAddress, wc_queued,
                 wc_rejected, wc_calls>>

\* a call of updateTokens() up to its await
updateTokens ==
  /\ wc_calls < MaxUpdateCalls
  /\ wc_calls' = wc_calls + 1
  /\ wc_pending' =
       IF wc_account # NoAccount
         THEN wc_pending \cup
                {Fetch(wc_calls + 1, 0, "fungibles", wc_account, "")}
         ELSE wc_pending
  /\ UNCHANGED <<wc_account, wc_fungibles, wc_nonFungibles,
                 wc_trackedNonFungibles, wc_xrdAddress, wc_queued,
                 wc_rejected, wc_events>>

\* a call of updateNonFungibles() up to its await
updateNonFungibles ==
  /\ wc_calls < MaxUpdateCalls
  /\ wc_calls' = wc_calls + 1
  /\ wc_pending' = wc_pending \cup StartNonFungibles(wc_calls + 1, 0)
  /\ UNCHANGED <<wc_account, wc_fungibles, wc_nonFungibles,
                 wc_trackedNonFungibles, wc_xrdAddress, wc_queued,
                 wc_rejected, wc_events>>

\* a call of updateNonFungible(resource) up to its first await
updateNonFungible ==
  /\ wc_calls < MaxUpdateCalls
  /\ wc_calls' = wc_calls + 1
  /\ \E resource \in NonFungibleResources :
       wc_pending' =
         IF wc_account # NoAccount
           THEN wc_pending \cup
                  {Fetch(wc_calls + 1, 0, "ids", wc_account, resource)}
           ELSE wc_pending
  /\ UNCHANGED <<wc_account, wc_fungibles, wc_nonFungibles,
                 wc_trackedNonFungibles, wc_xrdAddress, wc_queued,
                 wc_rejected, wc_events>>

\* getFungibleResourcesHeldBy resolves: the rest of updateTokens. The
\* handler that awaited updateTokens() goes on in a later callback
FungiblesArrive ==
  \E fetch \in wc_pending :
    /\ fetch.kind = "fungibles"
    /\ wc_fungibles' = FungiblesHeldBy(fetch.account)
    /\ wc_pending' = wc_pending \ {fetch}
    /\ wc_queued' =
         IF fetch.handler = 0 THEN wc_queued
         ELSE wc_queued \cup {Queued(fetch.handler, "updateTokens")}
    /\ UNCHANGED <<wc_account, wc_nonFungibles, wc_trackedNonFungibles,
                   wc_xrdAddress, wc_rejected, wc_events, wc_calls>>

\* the handler after `await this.updateTokens()`: it calls
\* updateNonFungibles(), which starts its fetches for the account that is
\* current now, or settles without a fetch
AfterUpdateTokens ==
  \E queued \in wc_queued :
    /\ queued.awaited = "updateTokens"
    /\ wc_pending' = wc_pending \cup StartNonFungibles(0, queued.handler)
    /\ wc_queued' =
         (wc_queued \ {queued}) \cup
           (IF StartNonFungibles(0, queued.handler) = {}
              THEN {Queued(queued.handler, "updateNonFungibles")}
              ELSE {})
    /\ UNCHANGED <<wc_account, wc_fungibles, wc_nonFungibles,
                   wc_trackedNonFungibles, wc_xrdAddress, wc_rejected,
                   wc_events, wc_calls>>

\* getNonFungibleIdsHeldBy resolves: updateNonFungible asks for the items
NonFungibleIdsArrive ==
  \E fetch \in wc_pending :
    /\ fetch.kind = "ids"
    /\ wc_pending' =
         (wc_pending \ {fetch}) \cup
           {[fetch EXCEPT !.kind = "items",
                          !.ids = NonFungibleIdsHeldBy(fetch.account,
                                                       fetch.resource)]}
    /\ UNCHANGED <<wc_account, wc_fungibles, wc_nonFungibles,
                   wc_trackedNonFungibles, wc_xrdAddress, wc_queued,
                   wc_rejected, wc_events, wc_calls>>

\* the updateNonFungible calls of one Promise.all that have not settled
Unsettled(fetch) ==
  {other \in wc_pending \ {fetch} :
     /\ other.kind \in {"ids", "items"}
     /\ other.call = fetch.call
     /\ other.handler = fetch.handler}

\* getNonFungibleItemsFromIds resolves: the rest of updateNonFungible. When
\* this was the last call the Promise.all of a handler awaited, the handler
\* goes on in a later callback
NonFungibleItemsArrive ==
  \E fetch \in wc_pending :
    /\ fetch.kind = "items"
    /\ wc_nonFungibles' =
         MapSet(wc_nonFungibles, fetch.resource,
                NonFungibleItems(fetch.resource, fetch.ids))
    /\ wc_pending' = wc_pending \ {fetch}
    /\ wc_queued' =
         IF /\ fetch.handler # 0
            /\ fetch.handler \notin wc_rejected
            /\ Unsettled(fetch) = {}
           THEN wc_queued \cup {Queued(fetch.handler, "updateNonFungibles")}
           ELSE wc_queued
    /\ UNCHANGED <<wc_account, wc_fungibles, wc_trackedNonFungibles,
                   wc_xrdAddress, wc_rejected, wc_events, wc_calls>>

\* the handler after `await this.updateNonFungibles()`: the processor has
\* no method xrdAddress, the call throws a TypeError before anything is
\* requested or assigned, and the promise of the handler rejects
AfterUpdateNonFungibles ==
  \E queued \in wc_queued :
    /\ queued.awaited = "updateNonFungibles"
    /\ wc_queued' = wc_queued \ {queued}
    /\ wc_rejected' = wc_rejected \cup {queued.handler}
    /\ UNCHANGED <<wc_account, wc_fungibles, wc_nonFungibles,
                   wc_trackedNonFungibles, wc_xrdAddress, wc_pending,
                   wc_events, wc_calls>>

\* a gateway request is given up: the method that awaited it rejects, and
\* so does the handler that awaited the method
FetchRejects ==
  \E fetch \in wc_pending :
    /\ wc_pending' = wc_pending \ {fetch}
    /\ wc_rejected' =
         IF fetch.handler # 0 THEN wc_rejected \cup {fetch.handler}
                              ELSE wc_rejected
    /\ UNCHANGED <<wc_account, wc_fungibles, wc_nonFungibles,
                   wc_trackedNonFungibles, wc_xrdAddress, wc_queued,
                   wc_events, wc_calls>>
\* ------------------------------------------------------------------------
\* Specifications
\* ------------------------------------------------------------------------
LibIdle == ParserIdle /\ MbIdle /\ NftIdle /\ WiIdle /\ GpIdle /\ WcIdle

InitBatch == DibInit /\ WmlIdle /\ GwIdle /\ LibIdle
NextBatch == DivideInBatches /\ UNCHANGED <<wmlVars, gwVars, libVars>>
SpecBatch == InitBatch /\ [][NextBatch]_vars

InitRetry == WmlInit /\ DibIdle /\ GwIdle /\ LibIdle
NextRetry ==
  \/ WmlAttemptResolves /\ UNCHANGED <<dibVars, gwVars, libVars>>
  \/ WmlAttemptRejects /\ UNCHANGED <<dibVars, gwVars, libVars>>
  \/ WmlTimerFires /\ UNCHANGED <<dibVars, gwVars, libVars>>
SpecRetry == InitRetry /\ [][NextRetry]_vars

InitGateway == GwInit /\ WmlIdle /\ DibIdle /\ LibIdle
NextGateway ==
  \/ \E c \in Calls : getResourcesInformation(c) /\ UNCHANGED <<wmlVars, dibVars, libVars>>
  \/ \E c \in Calls : getNftOwners(c) /\ UNCHANGED <<wmlVars, dibVars, libVars>>
  \/ \E c \in Calls : getNonFungibleItemsFromIds(c) /\ UNCHANGED <<wmlVars, dibVars, libVars>>
  \/ \E c \in Calls : getNonFungibleResourcesHeldBy(c) /\ UNCHANGED <<wmlVars, dibVars, libVars>>
  \/ \E c \in Calls : getNonFungibleIdsHeldBy(c) /\ UNCHANGED <<wmlVars, dibVars, libVars>>
  \/ \E c \in Calls : getAllNonFungibleIds(c) /\ UNCHANGED <<wmlVars, dibVars, libVars>>
  \/ \E c \in Calls : fullTransactionStream(c) /\ UNCHANGED <<wmlVars, dibVars, libVars>>
  \/ \E c \in Calls : LedgerStateArrives(c) /\ UNCHANGED <<wmlVars, dibVars, libVars>>
  \/ \E c \in Calls : CollectionsPageArrives(c) /\ UNCHANGED <<wmlVars, dibVars, libVars>>
  \/ \E c \in Calls : CollectionSearchPageArrives(c) /\ UNCHANGED <<wmlVars, dibVars, libVars>>
  \/ \E c \in Calls : CollectionVaultPageArrives(c) /\ UNCHANGED <<wmlVars, dibVars, libVars>>
  \/ \E c \in Calls : AllIdsLedgerStateArrives(c) /\ UNCHANGED <<wmlVars, dibVars, libVars>>
  \/ \E c \in Calls : AllIdsPageArrives(c) /\ UNCHANGED <<wmlVars, dibVars, libVars>>
  \/ \E c \in Calls : StreamPageArrives(c) /\ UNCHANGED <<wmlVars, dibVars, libVars>>
  \/ \E c \in Calls : getFungibleResourcesHeldBy(c) /\ UNCHANGED <<wmlVars, dibVars, libVars>>
  \/ \E c \in Calls : EntityStateArrives(c) /\ UNCHANGED <<wmlVars, dibVars, libVars>>
  \/ \E c \in Calls : submitManifest(c) /\ UNCHANGED <<wmlVars, dibVars, libVars>>
  \/ \E c \in Calls : CurrentEpochArrives(c) /\ UNCHANGED <<wmlVars, dibVars, libVars>>
  \/ \E c \in Calls : TransactionSubmitArrives(c) /\ UNCHANGED <<wmlVars, dibVars, libVars>>
  \/ \E c \in Calls : TransactionStatusArrives(c) /\ UNCHANGED <<wmlVars, dibVars, libVars>>
  \/ \E c \in Calls : CommittedDetailsArrive(c) /\ UNCHANGED <<wmlVars, dibVars, libVars>>
  \/ \E c \in Calls : \E t \in DOMAIN call[c].threads :
       EntityDetailsArrive(c, t) /\ UNCHANGED <<wmlVars, dibVars, libVars>>
  \/ \E c \in Calls : \E t \in DOMAIN call[c].threads :
       NonFungibleLocationArrives(c, t) /\ UNCHANGED <<wmlVars, dibVars, libVars>>
  \/ \E c \in Calls : \E t \in DOMAIN call[c].threads :
       NonFungibleDataArrives(c, t) /\ UNCHANGED <<wmlVars, dibVars, libVars>>
  \/ \E c \in Calls : \E t \in DOMAIN call[c].threads :
       VaultPageArrives(c, t) /\ UNCHANGED <<wmlVars, dibVars, libVars>>
  \/ \E c \in Calls : \E t \in DOMAIN call[c].threads :
       RequestFails(c, t) /\ UNCHANGED <<wmlVars, dibVars, libVars>>
  \/ \E c \in Calls : \E t \in DOMAIN call[c].threads :
       RetryTimerFires(c, t) /\ UNCHANGED <<wmlVars, dibVars, libVars>>
  \/ LedgerAdvances /\ UNCHANGED <<wmlVars, dibVars, libVars>>
  \/ EpochAdvances /\ UNCHANGED <<wmlVars, dibVars, libVars>>
  \/ LedgerSettles /\ UNCHANGED <<wmlVars, dibVars, libVars>>
SpecGateway == InitGateway /\ [][NextGateway]_vars


\* the same call twice, every request answered at its first attempt
InitSideBySide == InitTwice /\ WmlIdle /\ DibIdle /\ LibIdle
NextSideBySide ==
  \/ \E c \in Calls : getResourcesInformation(c) /\ UNCHANGED <<wmlVars, dibVars, libVars>>
  \/ \E c \in Calls : getNftOwners(c) /\ UNCHANGED <<wmlVars, dibVars, libVars>>
  \/ \E c \in Calls : getNonFungibleItemsFromIds(c) /\ UNCHANGED <<wmlVars, dibVars, libVars>>
  \/ \E c \in Calls : getNonFungibleResourcesHeldBy(c) /\ UNCHANGED <<wmlVars, dibVars, libVars>>
  \/ \E c \in Calls : getNonFungibleIdsHeldBy(c) /\ UNCHANGED <<wmlVars, dibVars, libVars>>
  \/ \E c \in Calls : LedgerStateArrives(c) /\ UNCHANGED <<wmlVars, dibVars, libVars>>
  \/ \E c \in Calls : CollectionsPageArrives(c) /\ UNCHANGED <<wmlVars, dibVars, libVars>>
  \/ \E c \in Calls : CollectionSearchPageArrives(c) /\ UNCHANGED <<wmlVars, dibVars, libVars>>
  \/ \E c \in Calls : CollectionVaultPageArrives(c) /\ UNCHANGED <<wmlVars, dibVars, libVars>>
  \/ \E c \in Calls : \E t \in DOMAIN call[c].threads :
       EntityDetailsArrive(c, t) /\ UNCHANGED <<wmlVars, dibVars, libVars>>
  \/ \E c \in Calls : \E t \in DOMAIN call[c].threads :
       NonFungibleLocationArrives(c, t) /\ UNCHANGED <<wmlVars, dibVars, libVars>>
  \/ \E c \in Calls : \E t \in DOMAIN call[c].threads :
       NonFungibleDataArrives(c, t) /\ UNCHANGED <<wmlVars, dibVars, libVars>>
  \/ \E c \in Calls : \E t \in DOMAIN call[c].threads :
       VaultPageArrives(c, t) /\ UNCHANGED <<wmlVars, dibVars, libVars>>
  \/ LedgerAdvances /\ UNCHANGED <<wmlVars, dibVars, libVars>>
SpecSideBySide == InitSideBySide /\ [][NextSideBySide]_vars


\* one submitManifest, with the scheduling of the event loop: a request in
\* flight is answered, with a response or an error, a retry timer fires, and
\* a called method starts; the ledger may keep a transaction pending for ever
InitSubmitLive == InitSubmit /\ WmlIdle /\ DibIdle /\ LibIdle
RequestAnswered(c) ==
  \/ CurrentEpochArrives(c)
  \/ TransactionSubmitArrives(c)
  \/ TransactionStatusArrives(c)
  \/ CommittedDetailsArrive(c)
  \/ RequestFails(c, 0)
NextSubmitLive ==
  \/ \E c \in Calls : submitManifest(c) /\ UNCHANGED <<wmlVars, dibVars, libVars>>
  \/ \E c \in Calls : CurrentEpochArrives(c) /\ UNCHANGED <<wmlVars, dibVars, libVars>>
  \/ \E c \in Calls : TransactionSubmitArrives(c) /\ UNCHANGED <<wmlVars, dibVars, libVars>>
  \/ \E c \in Calls : TransactionStatusArrives(c) /\ UNCHANGED <<wmlVars, dibVars, libVars>>
  \/ \E c \in Calls : CommittedDetailsArrive(c) /\ UNCHANGED <<wmlVars, dibVars, libVars>>
  \/ \E c \in Calls : RequestFails(c, 0) /\ UNCHANGED <<wmlVars, dibVars, libVars>>
  \/ \E c \in Calls : RetryTimerFires(c, 0) /\ UNCHANGED <<wmlVars, dibVars, libVars>>
  \/ EpochAdvances /\ UNCHANGED <<wmlVars, dibVars, libVars>>
  \/ LedgerSettles /\ UNCHANGED <<wmlVars, dibVars, libVars>>
SpecSubmitLive ==
  /\ InitSubmitLive
  /\ [][NextSubmitLive]_vars
  /\ \A c \in Calls :
       /\ WF_vars(submitManifest(c) /\ UNCHANGED <<wmlVars, dibVars, libVars>>)
       /\ WF_vars(RequestAnswered(c) /\ UNCHANGED <<wmlVars, dibVars, libVars>>)
       /\ WF_vars(RetryTimerFires(c, 0) /\ UNCHANGED <<wmlVars, dibVars, libVars>>)

\* ------------------------------------------------------------------------
\* Claims on withMaxLoops (SpecRetry)
\* ------------------------------------------------------------------------
\* C1: with a toRun that rejects on every attempt, withMaxLoops invokes it
\* exactly max_loops times and then raises, whatever max_loops is: it never
\* makes more than max_loops attempts, and it raises after exactly max_loops.
C1_AlwaysFailingStopsAtMaxLoops ==
  (succeedAt = 0 /\ calls >= 1) =>
    /\ calls <= max_loops
    /\ (calls = max_loops <=> wml_pc = "thrown")
    /\ (wml_pc = "thrown" => wml_error = toRunError(max_loops))

\* C2: with a toRun that rejects on attempts 1..k-1 and resolves on attempt
\* k <= max_loops, withMaxLoops invokes it exactly k times, returns the value
\* of attempt k and makes no further attempt.
C2_ReturnsOnAttemptK ==
  (succeedAt >= 1 /\ succeedAt <= max_loops) =>
    /\ calls <= succeedAt
    /\ wml_pc # "thrown"
    /\ (calls = succeedAt <=> wml_pc = "returned")
    /\ (wml_pc = "returned" =>
          /\ wml_result = toRunValue(succeedAt)
          /\ wml_error = 0
          /\ ~ENABLED NextRetry)

\* a run that failed at least once and succeeded on the very last attempt
\* the cap allows
C2_Witness ==
  /\ wml_pc = "returned"
  /\ succeedAt >= 2
  /\ succeedAt = max_loops
  /\ calls = succeedAt

\* ------------------------------------------------------------------------
\* Claims on divideInBatches (SpecBatch)
\* ------------------------------------------------------------------------
RECURSIVE Concat(_)
Concat(ss) == IF ss = <<>> THEN <<>> ELSE Head(ss) \o Concat(Tail(ss))

\* C3: for every collection and batchSize > 0 the batches concatenate, in
\* order, to the collection; every batch but the last holds exactly batchSize
\* elements; no batch is empty; the empty collection yields no batches; the
\* collection itself is unchanged.
C3_BatchingCorrect ==
  dib_pc = "done" =>
    /\ Concat(batches) = collection0
    /\ \A j \in 1..(Len(batches) - 1) : Len(batches[j]) = batchSize
    /\ \A j \in 1..Len(batches) :
         Len(batches[j]) >= 1 /\ Len(batches[j]) <= batchSize
    /\ (collection0 = <<>> => batches = <<>>)
    /\ collection = collection0

\* several batches, the last one shorter than batchSize
C3_Witness ==
  /\ dib_pc = "done"
  /\ Len(batches) >= 2
  /\ Len(batches[Len(batches)]) < batchSize

\* parseNonFungibleData on every pair of nodes
OthersThanParser ==
  <<wmlVars, dibVars, gwVars, mbVars, nftVars, wiVars, gpVars, wcVars>>
InitParser ==
  ParserInit /\ WmlIdle /\ DibIdle /\ GwIdle /\ MbIdle /\ NftIdle /\ WiIdle
  /\ GpIdle /\ WcIdle
NextParser == ParseNonFungibleData /\ UNCHANGED OthersThanParser
SpecParser == InitParser /\ [][NextParser]_vars

\* one StringManifestBuilder, its methods called in every order
OthersThanBuilder ==
  <<wmlVars, dibVars, gwVars, parserVars, nftVars, wiVars, gpVars, wcVars>>
InitBuilder ==
  MbInit /\ WmlIdle /\ DibIdle /\ GwIdle /\ ParserIdle /\ NftIdle /\ WiIdle
  /\ GpIdle /\ WcIdle
NextBuilder ==
  \/ LockFee /\ UNCHANGED OthersThanBuilder
  \/ DepositBatch /\ UNCHANGED OthersThanBuilder
  \/ NonFungibleBucket /\ UNCHANGED OthersThanBuilder
  \/ FungibleBucket /\ UNCHANGED OthersThanBuilder
  \/ ProofOfAmount /\ UNCHANGED OthersThanBuilder
  \/ NonFungibleProof /\ UNCHANGED OthersThanBuilder
  \/ AddRawInstruction /\ UNCHANGED OthersThanBuilder
  \/ AllocateGlobalAddress /\ UNCHANGED OthersThanBuilder
  \/ AssertWorktopContains /\ UNCHANGED OthersThanBuilder
  \/ AssertWorktopContainsAny /\ UNCHANGED OthersThanBuilder
  \/ AssertWorktopContainsNonFungibles /\ UNCHANGED OthersThanBuilder
  \/ BurnResource /\ UNCHANGED OthersThanBuilder
  \/ CallFunction /\ UNCHANGED OthersThanBuilder
  \/ CallMethod /\ UNCHANGED OthersThanBuilder
  \/ ClaimComponentRoyalties /\ UNCHANGED OthersThanBuilder
  \/ ClaimPackageRoyalties /\ UNCHANGED OthersThanBuilder
  \/ CloneProof /\ UNCHANGED OthersThanBuilder
  \/ CreateAccessController /\ UNCHANGED OthersThanBuilder
  \/ CreateAccount /\ UNCHANGED OthersThanBuilder
  \/ CreateIdentity /\ UNCHANGED OthersThanBuilder
  \/ CreateProofFromAuthZoneOfAll /\ UNCHANGED OthersThanBuilder
  \/ CreateProofFromAuthZoneOfAmount /\ UNCHANGED OthersThanBuilder
  \/ CreateProofFromAuthZoneOfNonFungibles /\ UNCHANGED OthersThanBuilder
  \/ CreateProofFromBucketOfAll /\ UNCHANGED OthersThanBuilder
  \/ CreateProofFromBucketOfAmount /\ UNCHANGED OthersThanBuilder
  \/ CreateProofFromBucketOfNonFungibles /\ UNCHANGED OthersThanBuilder
  \/ DropAllProofs /\ UNCHANGED OthersThanBuilder
  \/ DropAuthZoneProofs /\ UNCHANGED OthersThanBuilder
  \/ DropAuthZoneRegularProofs /\ UNCHANGED OthersThanBuilder
  \/ DropAuthZoneSignatureProofs /\ UNCHANGED OthersThanBuilder
  \/ DropNamedProofs /\ UNCHANGED OthersThanBuilder
  \/ LockComponentRoyalty /\ UNCHANGED OthersThanBuilder
  \/ LockMetadata /\ UNCHANGED OthersThanBuilder
  \/ LockOwnerRole /\ UNCHANGED OthersThanBuilder
  \/ MintFungible /\ UNCHANGED OthersThanBuilder
  \/ MintNonFungible /\ UNCHANGED OthersThanBuilder
  \/ MintRuidNonFungible /\ UNCHANGED OthersThanBuilder
  \/ PopFromAuthZone /\ UNCHANGED OthersThanBuilder
  \/ PushToAuthZone /\ UNCHANGED OthersThanBuilder
  \/ Recall /\ UNCHANGED OthersThanBuilder
  \/ RecallNonFungibles /\ UNCHANGED OthersThanBuilder
  \/ RemoveMetadata /\ UNCHANGED OthersThanBuilder
  \/ ReturnToWorktop /\ UNCHANGED OthersThanBuilder
  \/ SetComponentRoyalty /\ UNCHANGED OthersThanBuilder
  \/ TakeAllFromWorktop /\ UNCHANGED OthersThanBuilder
  \/ TakeFromWorktop /\ UNCHANGED OthersThanBuilder
  \/ TakeNonFungiblesFromWorktop /\ UNCHANGED OthersThanBuilder
  \/ Build /\ UNCHANGED OthersThanBuilder
SpecBuilder == InitBuilder /\ [][NextBuilder]_vars

\* one NFTSet and one NFTMap, used in every order
OthersThanNft ==
  <<wmlVars, dibVars, gwVars, parserVars, mbVars, wiVars, gpVars, wcVars>>
InitNft ==
  NftInit /\ WmlIdle /\ DibIdle /\ GwIdle /\ ParserIdle /\ MbIdle /\ WiIdle
  /\ GpIdle /\ WcIdle
NextNft ==
  \/ NFTSetAdd /\ UNCHANGED OthersThanNft
  \/ NFTSetDelete /\ UNCHANGED OthersThanNft
  \/ NFTSetClear /\ UNCHANGED OthersThanNft
  \/ NFTMapSet /\ UNCHANGED OthersThanNft
  \/ NFTMapDelete /\ UNCHANGED OthersThanNft
  \/ NFTMapClear /\ UNCHANGED OthersThanNft
  \/ NFTSetToArray /\ UNCHANGED OthersThanNft
  \/ NFTMapToArray /\ UNCHANGED OthersThanNft
SpecNft == InitNft /\ [][NextNft]_vars

\* NFT.fromGlobalId and NFT.toNonFungibles on every input
OthersThanIds ==
  <<wmlVars, dibVars, gwVars, parserVars, mbVars, wiVars, gpVars, wcVars>>
InitIds ==
  NftInit /\ WmlIdle /\ DibIdle /\ GwIdle /\ ParserIdle /\ MbIdle /\ WiIdle
  /\ GpIdle /\ WcIdle
NextIds ==
  \/ NFTFromGlobalId /\ UNCHANGED OthersThanIds
  \/ NFTToNonFungibles /\ UNCHANGED OthersThanIds
SpecIds == InitIds /\ [][NextIds]_vars

\* one sendTransaction, raced against its timer
OthersThanWallet ==
  <<wmlVars, dibVars, gwVars, parserVars, mbVars, nftVars, gpVars, wcVars>>
InitWallet ==
  WiInit /\ WmlIdle /\ DibIdle /\ GwIdle /\ ParserIdle /\ MbIdle /\ NftIdle
  /\ GpIdle /\ WcIdle
NextWallet ==
  \/ sendTransaction /\ UNCHANGED OthersThanWallet
  \/ WalletCompletes /\ UNCHANGED OthersThanWallet
  \/ TimeoutFires /\ UNCHANGED OthersThanWallet
  \/ CommittedDetailsSettle /\ UNCHANGED OthersThanWallet
  \/ OnSuccessSettles /\ UNCHANGED OthersThanWallet
SpecWallet == InitWallet /\ [][NextWallet]_vars

\* one GatewayProcessor, built with any arguments, sending requests
OthersThanProcessor ==
  <<wmlVars, dibVars, gwVars, parserVars, mbVars, nftVars, wiVars, wcVars>>
InitProcessor ==
  GpInit /\ WmlIdle /\ DibIdle /\ GwIdle /\ ParserIdle /\ MbIdle /\ NftIdle
  /\ WiIdle /\ WcIdle
NextProcessor ==
  \/ GpRequest /\ UNCHANGED OthersThanProcessor
  \/ GpAttemptResolves /\ UNCHANGED OthersThanProcessor
  \/ GpAttemptRejects /\ UNCHANGED OthersThanProcessor
  \/ GpTimerFires /\ UNCHANGED OthersThanProcessor
SpecProcessor == InitProcessor /\ [][NextProcessor]_vars

\* one WalletInterface, its account connecting and disconnecting while the caches are updated
OthersThanCaches ==
  <<wmlVars, dibVars, gwVars, parserVars, mbVars, nftVars, wiVars, gpVars>>
InitCaches ==
  WcInit /\ WmlIdle /\ DibIdle /\ GwIdle /\ ParserIdle /\ MbIdle /\ NftIdle
  /\ WiIdle /\ GpIdle
NextCaches ==
  \/ WalletDataArrives /\ UNCHANGED OthersThanCaches
  \/ updateTokens /\ UNCHANGED OthersThanCaches
  \/ updateNonFungibles /\ UNCHANGED OthersThanCaches
  \/ updateNonFungible /\ UNCHANGED OthersThanCaches
  \/ FungiblesArrive /\ UNCHANGED OthersThanCaches
  \/ AfterUpdateTokens /\ UNCHANGED OthersThanCaches
  \/ NonFungibleIdsArrive /\ UNCHANGED OthersThanCaches
  \/ NonFungibleItemsArrive /\ UNCHANGED OthersThanCaches
  \/ AfterUpdateNonFungibles /\ UNCHANGED OthersThanCaches
  \/ FetchRejects /\ UNCHANGED OthersThanCaches
SpecCaches == InitCaches /\ [][NextCaches]_vars

\* ------------------------------------------------------------------------
\* Claims on the public methods of GatewayProcessor (SpecGateway)
\* ------------------------------------------------------------------------
\* the threads of a call that threw
Thrown(cr) == {t \in DOMAIN cr.threads : cr.threads[t].error # NoError}

\* C4: once a request of a public method has failed maxLoops consecutive
\* times, the method is rejected with the error of that last attempt (with
\* the error thrown first when several threads of the call threw), and it
\* is never resolved with what it had accumulated.
C4_ExhaustedRequestRejectsCall ==
  \A c \in Calls : \A t \in DOMAIN call[c].threads :
    call[c].threads[t].error.kind = "request" =>
      /\ call[c].threads[t].error = RequestError(t, maxLoops)
      /\ call[c].status = "rejected"
      /\ call[c].error \in {call[c].threads[u].error : u \in Thrown(call[c])}
      /\ (Thrown(call[c]) = {t} => call[c].error = RequestError(t, maxLoops))

\* a call rejected by an exhausted request after another batch of the same
\* call had already been merged into the map
C4_Witness ==
  \E c \in Calls : \E t \in Tasks(call[c]) :
    /\ call[c].method = "getResourcesInformation"
    /\ call[c].status = "rejected"
    /\ call[c].error = RequestError(t, maxLoops)
    /\ DOMAIN call[c].resource_map # {}

\* the operations of a call's limiter that are executing
Executing(cr) ==
  {t \in Tasks(cr) : cr.threads[t].pc \in {"running", "wait"}}

\* C5: in every call at most concurrencyLimit of the operations handed to
\* its limiter are executing; an operation waits in the queue only while
\* the limiter is full; the ceiling is counted for each call on its own.
C5_LimiterCeilingPerCall ==
  \A c \in Calls :
    /\ Cardinality(Executing(call[c])) <= concurrencyLimit
    /\ call[c].activeCount = Cardinality(Executing(call[c]))
    /\ (call[c].queue # <<>> =>
          Cardinality(Executing(call[c])) = concurrencyLimit)
    /\ \A i \in 1..Len(call[c].queue) :
         call[c].threads[call[c].queue[i]].pc = "queued"

\* two calls side by side, each at its ceiling, one with an operation
\* waiting: more than concurrencyLimit operations execute on the processor
C5_Witness ==
  /\ call[1].queue # <<>>
  /\ Cardinality(Executing(call[1])) = concurrencyLimit
  /\ Cardinality(Executing(call[2])) = concurrencyLimit
  /\ Cardinality(Executing(call[1])) + Cardinality(Executing(call[2]))
       > concurrencyLimit

\* the threads of a call that have a page request of a paginated loop out
Paging(cr) ==
  {t \in DOMAIN cr.threads :
     /\ cr.threads[t].pc \in {"running", "wait"}
     /\ cr.threads[t].req.endpoint \in
          {"entityNonFungiblesPage", "entityNonFungibleIdsPage",
           "nonFungibleIds", "streamTransactions"}}

\* C6: a page request of a loop carries the next_cursor of the loop's last
\* response (none on the first request), and no page is requested after a
\* response without a cursor.
C6_PagesFollowCursor ==
  \A c \in Calls : \A t \in Paging(call[c]) :
    LET th == call[c].threads[t]
    IN /\ th.req.cursor = th.served_next
       /\ (th.served_n = 0 => th.req.cursor = NoCursor)
       /\ (th.served_n >= 1 => th.req.cursor # NoCursor)

\* a vault loop past its second page in a call whose collections loop took
\* more than one page, asking with the cursor it was given
C6_Witness ==
  \E c \in Calls : \E t \in Paging(call[c]) :
    /\ call[c].threads[0].served_n >= 2
    /\ call[c].threads[t].req.endpoint = "entityNonFungibleIdsPage"
    /\ call[c].threads[t].served_n >= 2
    /\ call[c].threads[t].req.cursor = call[c].threads[t].served_next

\* the ids the vaults of collection item i hold at a state version
ItemIds(i, version) ==
  UNION {Range(VaultContent(CollectionVaults[i][k], version)) :
           k \in 1..Len(CollectionVaults[i])}

\* C7: when getNonFungibleResourcesHeldBy returns, the ids accumulated in
\* owned for a resource address include every id of every vault of every collection
\* item that carries the address, however the item callbacks interleave.
C7_NoIdLost ==
  \A c \in Calls :
    (call[c].method = "getNonFungibleResourcesHeldBy"
     /\ call[c].status = "resolved") =>
      \A i \in 1..Len(CollectionVaults) :
        /\ gateway.resource_of[i] \in DOMAIN call[c].owned
        /\ ItemIds(i, call[c].ledger_state) \subseteq
             Range(call[c].heap[call[c].owned[gateway.resource_of[i]]])

\* C8: getNonFungibleResourcesHeldBy and getNonFungibleIdsHeldBy ask for the
\* ledger state only while they have none, and every collections page and
\* vault page request they send afterwards is pinned to the version read.
C8_PagesPinnedToLedgerState ==
  \A c \in Calls :
    call[c].method \in {"getNonFungibleResourcesHeldBy",
                        "getNonFungibleIdsHeldBy"} =>
      \A t \in DOMAIN call[c].threads :
        LET th == call[c].threads[t]
        IN /\ (th.pc \in {"running", "wait"} /\ th.req.endpoint = "status")
                => call[c].ledger_state = 0
           /\ t \in Paging(call[c]) =>
                /\ call[c].ledger_state >= 1
                /\ th.req.state_version = call[c].ledger_state

\* a vault page asked for at the pinned version after the ledger moved on
C8_Witness ==
  \E c \in Calls : \E t \in Paging(call[c]) :
    /\ call[c].threads[t].req.endpoint = "entityNonFungibleIdsPage"
    /\ call[c].threads[t].req.state_version = call[c].ledger_state
    /\ call[c].ledger_state < gateway.state_version

\* ------------------------------------------------------------------------
\* Claims on the same call made twice (SpecSideBySide)
\* ------------------------------------------------------------------------
\* both slots hold a getNonFungibleIdsHeldBy that returned, for the same
\* entity and resource, pinned to the same state version
SameDrain ==
  /\ call[1].method = "getNonFungibleIdsHeldBy"
  /\ call[2].method = "getNonFungibleIdsHeldBy"
  /\ call[1].status = "resolved"
  /\ call[2].status = "resolved"
  /\ call[1].entity = call[2].entity
  /\ call[1].resource = call[2].resource
  /\ call[1].ledger_state = call[2].ledger_state

\* C9: two getNonFungibleIdsHeldBy calls for the same entity, resource and
\* ledger state return the same set of ids, whatever sizes the gateway
\* cuts the pages of the two calls to.
C9_DrainsAgreeAsSets ==
  SameDrain => Range(call[1].value) = Range(call[2].value)

\* two such calls served with different page sizes, with follow-up pages
C9_Witness ==
  /\ SameDrain
  /\ gateway.ids_per_page[1] # gateway.ids_per_page[2]
  /\ Len(call[1].value) >= 3
  /\ Range(call[1].value) = Range(call[2].value)

\* both slots hold the same fan-out call, both returned, and the two runs
\* read the same ledger state
SameCallReturnedTwice ==
  /\ call[1].method = call[2].method
  /\ call[1].input = call[2].input
  /\ call[1].status = "resolved"
  /\ call[2].status = "resolved"
  /\ call[1].ledger_state = call[2].ledger_state

\* the addresses of the resources a held-by call returned
AddressesOf(value) == {value[i].address : i \in 1..Len(value)}

\* the entry a held-by call returned for an address
HeldAt(value, a) ==
  value[CHOOSE i \in 1..Len(value) : value[i].address = a]

\* C10: two runs of the same fan-out call differ only in the order their
\* batches or vault pages complete, and return the same result: the same
\* map for getResourcesInformation and getNftOwners, the same list for
\* getNonFungibleItemsFromIds, the same set of ids for every address for
\* getNonFungibleResourcesHeldBy.
C10_SameResultInEveryOrder ==
  SameCallReturnedTwice =>
    IF call[1].method = "getNonFungibleResourcesHeldBy"
    THEN /\ AddressesOf(call[1].value) = AddressesOf(call[2].value)
         /\ \A a \in AddressesOf(call[1].value) :
              Range(HeldAt(call[1].value, a).ids_held) =
                Range(HeldAt(call[2].value, a).ids_held)
    ELSE call[1].value = call[2].value

\* ------------------------------------------------------------------------
\* Claims on the results of the public methods (SpecGateway)
\* ------------------------------------------------------------------------
\* the resource has a name entry that is a non-empty string, plain or
\* wrapped in an enum with a string field
HasResolvableName(a) ==
  \E i \in 1..Len(Entity(a).metadata) :
    LET md == Entity(a).metadata[i]
    IN /\ md.key = "name"
       /\ \/ md.kind = "String" /\ md.value # ""
          \/ /\ md.kind = "Enum"
             /\ Len(md.fields) >= 1
             /\ md.fields[1].kind = "String"
             /\ md.fields[1].value # ""

\* C11: the map getResourcesInformation returns holds exactly the queried
\* resources that have a resolvable name, each under its own address and
\* carrying that address.
C11_OnlyNamedResourcesReturned ==
  \A c \in Calls :
    (call[c].method = "getResourcesInformation"
     /\ call[c].status = "resolved") =>
      /\ DOMAIN call[c].value =
           {a \in Range(call[c].input) : HasResolvableName(a)}
      /\ \A a \in DOMAIN call[c].value : call[c].value[a].address = a

\* two resources were queried, one with a name and one without: the map
\* returned holds the named one only
C11_Witness ==
  /\ call[1].method = "getResourcesInformation"
  /\ call[1].status = "resolved"
  /\ call[1].input = <<"r1", "r3">>
  /\ DOMAIN call[1].value = {"r1"}
  /\ Cardinality(DOMAIN call[1].value) = 1

\* C12: whatever shape the name, description, icon_url and symbol entries
\* of the queried entities have (plain string, enum with one field, enum
\* without field), getResourcesInformation raises nothing while it reads
\* them.
C12_MetadataNeverRaises ==
  \A c \in Calls :
    call[c].method = "getResourcesInformation" =>
      /\ call[c].error.kind # "TypeError"
      /\ \A t \in DOMAIN call[c].threads :
           call[c].threads[t].error.kind # "TypeError"

\* the successful transactions a fullTransactionStream call asks for, in
\* stream order
SuccessfulFrom(cr) ==
  CommittedSuccessOnly(SelectTxs(Transactions, streamRequest(cr, NoCursor)))

\* the call returned at most its max_amount transactions, exactly max_amount
\* when the stream holds more successful ones, all of them CommittedSuccess,
\* and a prefix of the successful transactions in stream order
CappedPrefix(c) ==
  LET value == call[c].value
      all == SuccessfulFrom(call[c])
      max_amount == call[c].max_amount.value
  IN /\ Len(value) <= max_amount
     /\ (Len(all) > max_amount => Len(value) = max_amount)
     /\ \A i \in 1..Len(value) :
          value[i].transaction_status = "CommittedSuccess"
     /\ Len(value) <= Len(all)
     /\ value = SubSeq(all, 1, Len(value))

\* C13: fullTransactionStream with a max_amount given returns at most
\* max_amount transactions, exactly max_amount when the stream holds more
\* successful ones, all of them CommittedSuccess, and the result is a prefix
\* of the successful transactions in stream order.
C13_StreamCappedPrefix ==
  \A c \in Calls :
    (call[c].method = "fullTransactionStream"
     /\ call[c].status = "resolved" /\ call[c].max_amount.given) =>
      CappedPrefix(c)

\* the same for a max_amount of 1 or more
C13_PositiveCapPrefix ==
  \A c \in Calls :
    (call[c].method = "fullTransactionStream"
     /\ call[c].status = "resolved"
     /\ call[c].max_amount.given /\ call[c].max_amount.value >= 1) =>
      CappedPrefix(c)

\* a call with max_amount 0 returns every successful transaction of the
\* stream, as a call without max_amount does
C13_ZeroReturnsAll ==
  \A c \in Calls :
    (call[c].method = "fullTransactionStream"
     /\ call[c].status = "resolved"
     /\ call[c].max_amount \in {Omitted, Given(0)}) =>
      call[c].value = SuccessfulFrom(call[c])

\* a call with max_amount 0 returned transactions
C13_ZeroReturnedSome ==
  \E c \in Calls :
    /\ call[c].method = "fullTransactionStream"
    /\ call[c].status = "resolved"
    /\ call[c].max_amount = Given(0)
    /\ Len(call[c].value) > 0

\* a capped stream whose last page carried it past the cap: more successful
\* transactions were kept than are returned
C13_Witness ==
  \E c \in Calls :
    /\ call[c].method = "fullTransactionStream"
    /\ call[c].status = "resolved"
    /\ call[c].max_amount = Given(2)
    /\ Len(call[c].value) = 2
    /\ Len(call[c].full_stream) > 2
    /\ Len(SuccessfulFrom(call[c])) > 2


\* the remote interactions of submitManifest, in the order of the code
SubmitOrder == <<"epoch", "submit", "transactionStatus", "committedDetails">>

\* C14: in every execution of submitManifest the remote interactions are
\* answered in the order current epoch, submit, status (one or more times),
\* committed details; the submit request goes out once the epoch is read, a
\* status poll only after a submit attempt succeeded, and the committed
\* details are requested only after a status other than Pending was observed
C14_SubmitInteractionsInOrder ==
  \A c \in Calls :
    call[c].method = "submitManifest" =>
      LET cr == call[c]
          endpoint == IF cr.threads[0].pc \in {"running", "wait"}
                      THEN cr.threads[0].req.endpoint ELSE "none"
      IN /\ cr.answered = SubSeq(SubmitOrder, 1, Len(cr.answered))
         /\ endpoint = "transactionSubmit" => cr.answered = <<"epoch">>
         /\ endpoint = "transactionStatus" =>
              cr.answered \in {<<"epoch", "submit">>,
                               <<"epoch", "submit", "transactionStatus">>}
         /\ endpoint = "committedDetails" =>
              /\ cr.answered = SubSeq(SubmitOrder, 1, 3)
              /\ cr.transactionStatus \notin {Undefined, "Pending"}
         /\ cr.status = "resolved" => cr.answered = SubmitOrder

\* a submitManifest returned the record of a transaction after all four
\* interactions
C14_Witness ==
  \E c \in Calls :
    /\ call[c].method = "submitManifest"
    /\ call[c].status = "resolved"
    /\ call[c].answered = SubmitOrder
    /\ call[c].transactionStatus = "CommittedSuccess"
    /\ call[c].value.intent_hash = <<"intent", call[c].manifest>>

\* C15: whenever submitManifest has stopped polling and reads the committed
\* details, the last polled status is CommittedSuccess or CommittedFailure
C15_PollEndsCommitted ==
  \A c \in Calls :
    (call[c].method = "submitManifest"
       /\ call[c].threads[0].step = "committedDetails") =>
      call[c].transactionStatus \in {"CommittedSuccess", "CommittedFailure"}

\* C16: a submitManifest that polled a final status other than success does
\* not throw for it: while it reads the committed details the gateway has the
\* record to answer with, the record carries the polled status and an error
\* message, and this record is what the call returns
C16_FailedTransactionReturned ==
  \A c \in Calls :
    (call[c].method = "submitManifest"
       /\ call[c].threads[0].step = "committedDetails"
       /\ call[c].transactionStatus \in {"CommittedFailure", "Rejected"}) =>
      LET cr == call[c]
          request == committedDetailsRequest(IntentHashOf(cr))
      IN /\ cr.status = "pending" =>
              /\ HasCommittedDetails(request)
              /\ GatewayCommittedDetails(request).transaction.transaction_status
                   = cr.transactionStatus
              /\ GatewayCommittedDetails(request).transaction.error_message
                   # Undefined
         /\ cr.status = "resolved" =>
              /\ cr.value.transaction_status = cr.transactionStatus
              /\ cr.value.error_message # Undefined
         /\ cr.status = "rejected" =>
              cr.error = RequestError(0, maxLoops)

\* a request of the call failed maxLoops times
Exhausted(c) ==
  call[c].status = "rejected" /\ call[c].error = RequestError(0, maxLoops)

\* while the last status answer is Pending, submitManifest polls
StillPolling(c) ==
  \/ /\ call[c].status = "pending"
     /\ call[c].threads[0].pc \in {"running", "wait"}
     /\ call[c].threads[0].req
          = transactionStatusRequest(IntentHashOf(call[c]))
  \/ Exhausted(c)

\* C17: the status poll has no cap: after a Pending answer, however many
\* there were, submitManifest has neither returned nor raised and polls
\* again (only a status request that fails maxLoops times ends it); and once
\* a status other than Pending was answered, submitManifest returns unless
\* one of its requests fails maxLoops times
C17_PollsUntilNotPending ==
  /\ [](\A c \in Calls :
          (call[c].method = "submitManifest"
             /\ call[c].transactionStatus = "Pending") => StillPolling(c))
  /\ \A c \in Calls :
       (call[c].method = "submitManifest"
          /\ call[c].transactionStatus \notin {Undefined, "Pending"})
         ~> (call[c].status = "resolved" \/ Exhausted(c))

\* a submitManifest returned after MaxPolls or more status answers
C17_Witness ==
  \E c \in Calls :
    /\ call[c].method = "submitManifest"
    /\ call[c].polls = MaxPolls
    /\ call[c].status = "resolved"

\* the well-known fields of a non-fungible's data
Promoted == {"name", "description", "key_image_url"}

\* the named fields of a tuple payload under one name, in order
FieldsNamed(payload, name) ==
  SelectSeq(payload.fields, LAMBDA f : f.field_name = name)

\* the Scrypto parser's rendering of the last field under a name, undefined
\* without such a field
Rendered(payload, name) ==
  LET fs == FieldsNamed(payload, name)
  IN IF fs = <<>> THEN Undefined
     ELSE parseNonFungibleData(fs[Len(fs)]).value

\* the names of the other named fields of a tuple payload
ExtraNames(payload) ==
  {payload.fields[i].field_name : i \in 1..Len(payload.fields)}
    \ (Promoted \cup {Undefined, ""})

\* C18: getNonFungibleItemsFromIds returns, for every item with a tuple
\* payload, the fields name, description and key_image_url as the item's
\* name, description and image_url and never in non_fungible_data, every
\* other named field in non_fungible_data under its name as the parser
\* renders it, and an undefined non_fungible_data when no such field exists
C18_TupleFieldsPromotedOrBucketed ==
  \A c \in Calls :
    (call[c].method = "getNonFungibleItemsFromIds"
       /\ call[c].status = "resolved") =>
      \A i \in 1..Len(call[c].value) :
        LET item == call[c].value[i]
            payload == DataOf(item.id)
            data == item.non_fungible_data
        IN payload.kind = "Tuple" =>
             /\ item.name = Rendered(payload, "name")
             /\ item.description = Rendered(payload, "description")
             /\ item.image_url = Rendered(payload, "key_image_url")
             /\ data.defined = (ExtraNames(payload) # {})
             /\ DOMAIN data.entries = ExtraNames(payload)
             /\ \A n \in DOMAIN data.entries :
                  data.entries[n] = Rendered(payload, n)

\* a call returned #1# with its promoted name and two bucketed fields, and
\* #2# with promoted fields only and no non_fungible_data
C18_Witness ==
  \E c \in Calls :
    /\ call[c].method = "getNonFungibleItemsFromIds"
    /\ call[c].status = "resolved"
    /\ \E i, j \in 1..Len(call[c].value) :
         /\ call[c].value[i].id = "#1#"
         /\ call[c].value[i].name = "uno"
         /\ call[c].value[i].non_fungible_data.defined
         /\ call[c].value[i].non_fungible_data.entries
              = [n \in {"level", "active"} |->
                   IF n = "level" THEN "5" ELSE "true"]
         /\ call[c].value[j].id = "#2#"
         /\ call[c].value[j].description = "two"
         /\ call[c].value[j].image_url = "u2"
         /\ ~call[c].value[j].non_fungible_data.defined

\* C19: getNftOwners returns a map in which every queried id with an owner
\* maps to the owner's address and an id without an owning ancestor address
\* is no key; no key maps to undefined
C19_OwnerlessIdsAbsent ==
  \A c \in Calls :
    (call[c].method = "getNftOwners" /\ call[c].status = "resolved") =>
      /\ \A id \in Range(call[c].input) :
           IF OwnerOf(id) # Undefined
           THEN id \in DOMAIN call[c].value /\ call[c].value[id] = OwnerOf(id)
           ELSE id \notin DOMAIN call[c].value
      /\ \A id \in DOMAIN call[c].value : call[c].value[id] # Undefined

\* the Global holdings the entity details of an entity report
GlobalHoldings(entity) ==
  SelectSeq(Entity(entity).fungible_resources.items,
            LAMBDA h : h.aggregation_level = "Global")

\* C20: getFungibleResourcesHeldBy returns exactly one entry per holding
\* reported at Global level whose resource has a resolvable name; vault-level
\* entries do not contribute and each entry's amount_held is the amount of
\* the Global holding of the same resource address
C20_GlobalHoldingsWithMetadata ==
  \A c \in Calls :
    (call[c].method = "getFungibleResourcesHeldBy"
       /\ call[c].status = "resolved") =>
      LET held == call[c].value
          holdings == GlobalHoldings(call[c].entity)
          kept == SelectSeq(holdings,
                            LAMBDA h : HasResolvableName(h.resource_address))
      IN /\ Len(held) = Len(kept)
         /\ \A k \in 1..Len(kept) :
              Cardinality({i \in 1..Len(held) :
                             held[i].address = kept[k].resource_address}) = 1
         /\ \A i \in 1..Len(held) :
              \E k \in 1..Len(kept) :
                /\ held[i].address = kept[k].resource_address
                /\ held[i].amount_held = parseFloat(kept[k].amount)

\* the holdings of account1 were returned: r1 and r6 with their totals, r5
\* without name and the vault-level entry of r1 left out
C20_Witness ==
  \E c \in Calls :
    /\ call[c].method = "getFungibleResourcesHeldBy"
    /\ call[c].status = "resolved"
    /\ call[c].entity = "account1"
    /\ Len(call[c].value) = 2
    /\ \E i, j \in 1..2 :
         /\ call[c].value[i].address = "r1"
         /\ call[c].value[i].amount_held = 20000
         /\ call[c].value[j].address = "r6"
         /\ call[c].value[j].amount_held = 22

\* ------------------------------------------------------------------------
\* Claims on the search of getNonFungibleIdsHeldBy, the Scrypto parser, the
\* manifest builder, the NFT containers and the wallet (C21..C30)
\* ------------------------------------------------------------------------
\* the collection items of the entity that carry a resource
ItemsOf(resource) ==
  {i \in 1..Len(CollectionVaults) : gateway.resource_of[i] = resource}

\* the number of collections pages the gateway has for the entity
CollectionPages ==
  (Len(CollectionVaults) + gateway.items_per_page - 1)
    \div gateway.items_per_page

\* C21: getNonFungibleIdsHeldBy requests a further collections page only
\* while no page received held the target resource's collection, requests id
\* pages only for vaults of that collection, and when no page holds the
\* collection it has read every page and returns the empty list
C21_SearchStopsAtCollection ==
  \A c \in Calls :
    call[c].method = "getNonFungibleIdsHeldBy" =>
      LET cr == call[c]
          th == cr.threads[0]
          endpoint == IF th.pc \in {"running", "wait"} THEN th.req.endpoint
                      ELSE "none"
      IN /\ endpoint = "entityNonFungiblesPage" =>
              \A i \in 1..th.req.cursor : i \notin ItemsOf(cr.resource)
         /\ endpoint = "entityNonFungibleIdsPage" =>
              /\ th.req.resource_address = cr.resource
              /\ cr.collection.resource_address = cr.resource
              /\ \E i \in ItemsOf(cr.resource) :
                   th.req.vault_address \in Range(CollectionVaults[i])
         /\ (cr.status = "resolved" /\ ItemsOf(cr.resource) = {}) =>
              /\ cr.value = <<>>
              /\ th.served_n = CollectionPages
              /\ th.served_next = NoCursor

\* a call returned the ids of the collection it found on the first of three
\* collections pages
C21_Witness ==
  \E c \in Calls :
    /\ call[c].method = "getNonFungibleIdsHeldBy"
    /\ call[c].status = "resolved"
    /\ gateway.items_per_page = 1
    /\ gateway.resource_of[1] = call[c].resource
    /\ call[c].value = VaultContent("v1", call[c].ledger_state)
                         \o VaultContent("v2", call[c].ledger_state)
    /\ call[c].value # <<>>

\* C22: parseNonFungibleData on an Option enum: Some with one string field
\* yields the string itself, without variant name or parentheses, and None
\* yields "None"
C22_OptionUnwrapped ==
  parser_pc = "done" =>
    \A k \in 1..2 :
      LET data == parser_in[k]
      IN (data.kind = "Enum" /\ data.type_name = "Option") =>
           /\ (data.variant_name = "Some" /\ Len(data.fields) = 1
                 /\ data.fields[1].kind = "String") =>
                parser_out[k].value = data.fields[1].value
           /\ data.variant_name = "None" => parser_out[k].value = "None"

\* Some("foo") was parsed to "foo" and None to "None"
C22_Witness ==
  /\ parser_pc = "done"
  /\ parser_in[1] = EnumNode("Option", "Some", <<StringNode("foo")>>)
  /\ parser_out[1].value = "foo"
  /\ parser_in[2] = EnumNode("Option", "None", <<>>)
  /\ parser_out[2].value = "None"

RECURSIVE EntriesJoined(_, _)
\* the entries of a map of leaves from entry i on, each as "key => value",
\* with ", " between two entries
EntriesJoined(entries, i) ==
  IF i > Len(entries) THEN ""
  ELSE entries[i].key.value \o " => " \o entries[i].value.value
         \o (IF i < Len(entries) THEN ", " ELSE "")
         \o EntriesJoined(entries, i + 1)

\* C23: parseNonFungibleData renders a Map node as its entries, each as
\* "key => value", joined with commas and wrapped in parentheses, with
\* Map<K, V> in front only if the map declares key and value type names
C23_MapRendering ==
  parser_pc = "done" =>
    \A k \in 1..2 :
      LET data == parser_in[k]
      IN data.kind = "Map" =>
           parser_out[k].value =
             (IF data.key_type_name # Undefined
                   /\ data.value_type_name # Undefined
              THEN "Map<" \o data.key_type_name \o ", "
                     \o data.value_type_name \o ">"
              ELSE "")
               \o "(" \o EntriesJoined(data.entries, 1) \o ")"

\* C24: the rendering of parseNonFungibleData is lossless: two different
\* nodes never give the same string
C24_RenderingLossless ==
  (parser_pc = "done" /\ parser_in[1] # parser_in[2]) =>
    parser_out[1].value # parser_out[2].value

\* whether one sequence of instructions begins with another
IsPrefix(shorter, longer) ==
  /\ Len(shorter) <= Len(longer)
  /\ SubSeq(longer, 1, Len(shorter)) = shorter

\* whether one string begins with another
StartsWith(longer, shorter) ==
  /\ Len(shorter) <= Len(longer)
  /\ SubSeq(longer, 1, Len(shorter)) = shorter

RECURSIVE NewlineJoined(_, _)
\* the first n instruction strings, one newline between neighbours
NewlineJoined(instructions, n) ==
  IF n = 0 THEN ""
  ELSE IF n = 1 THEN instructions[1]
  ELSE NewlineJoined(instructions, n - 1) \o "\n" \o instructions[n]

\* C25: build() returns the instruction strings joined by a single newline
\* in the order the methods were called; a builder method only appends, so
\* the output before the call is a prefix of the output after it; build()
\* leaves the builder as it was, and a second build() returns the same
\* string.
C25_BuildJoinsAppended ==
  /\ [](mb_pc = "built" =>
          mb_output = NewlineJoined(mb_builder.instructions,
                                     Len(mb_builder.instructions)))
  /\ [](mb_pc = "called" =>
          /\ IsPrefix(mb_before.instructions, mb_builder.instructions)
          /\ Len(mb_builder.instructions) > Len(mb_before.instructions)
          /\ StartsWith(Join(mb_builder.instructions, "\n"),
                        Join(mb_before.instructions, "\n")))
  /\ [][mb_pc' = "built" =>
          /\ mb_builder' = mb_builder
          /\ (mb_pc = "built" => mb_output' = mb_output)]_vars

C25_Witness ==
  /\ mb_pc = "built"
  /\ Len(mb_builder.instructions) = 3
  /\ mb_builder.emitted[1].name = "CALL_METHOD"
  /\ mb_builder.emitted[2].name = "TAKE_FROM_WORKTOP"
  /\ mb_builder.emitted[3].name = "CREATE_ACCOUNT"
  /\ mb_output = mb_builder.instructions[1] \o "\n"
                   \o mb_builder.instructions[2] \o "\n"
                   \o mb_builder.instructions[3]

RECURSIVE TabbedLines(_, _)
\* each argument from the i-th on, on a line of its own after one tab
TabbedLines(args, i) ==
  IF i > Len(args) THEN ""
  ELSE "\t" \o args[i] \o "\n" \o TabbedLines(args, i + 1)

\* the name, each argument on its own line after one tab, then a line
\* holding only the semicolon
InstructionForm(name, args) == name \o "\n" \o TabbedLines(args, 1) \o ";"

\* what build() returns for fungibleBucket(account, {xrd, 120}, "bucket"),
\* callMethod(component, "bid", ["1u64", Bucket("bucket")]),
\* depositBatch(account)
BidManifest ==
  "CALL_METHOD\n\tAddress(\"account\")\n\t\"withdraw\"\n\tAddress(\"xrd\")\n\tDecimal(\"120\")\n;\nTAKE_FROM_WORKTOP\n\tAddress(\"xrd\")\n\tDecimal(\"120\")\n\tBucket(\"bucket\")\n;\nCALL_METHOD\n\tAddress(\"component\")\n\t\"bid\"\n\t1u64\n\tBucket(\"bucket\")\n;\nCALL_METHOD\n\tAddress(\"account\")\n\t\"deposit_batch\"\n\tExpression(\"ENTIRE_WORKTOP\")\n;"

\* the three calls of the bid manifest were made, in that order
BidCalls ==
  /\ Len(mb_builder.emitted) = 4
  /\ mb_calls = 3
  /\ mb_builder.emitted[1].args
       = <<manifestAddress("account"), manifestString("withdraw"),
           manifestAddress("xrd"), manifestDecimal(120)>>
  /\ mb_builder.emitted[2]
       = [name |-> "TAKE_FROM_WORKTOP",
          args |-> <<manifestAddress("xrd"), manifestDecimal(120),
                     manifestBucket("bucket")>>]
  /\ mb_builder.emitted[3].args
       = <<manifestAddress("component"), manifestString("bid"), "1u64",
           manifestBucket("bucket")>>
  /\ mb_builder.emitted[4].args
       = <<manifestAddress("account"), manifestString("deposit_batch"),
           "Expression(\"ENTIRE_WORKTOP\")">>

\* C26: every instruction the builder writes itself (every one but the
\* texts handed to addRawInstruction) is its name, each argument on its own
\* line after one tab, and a closing line holding only ';'; the bid manifest
\* builds to the four instructions of the literal text.
C26_InstructionForm ==
  /\ \A i \in 1..Len(mb_builder.instructions) :
       mb_builder.emitted[i].name # "" =>
         mb_builder.instructions[i]
           = InstructionForm(mb_builder.emitted[i].name,
                             mb_builder.emitted[i].args)
  /\ (mb_pc = "built" /\ BidCalls) => mb_output = BidManifest

\* the literal part of C26 alone
C26_BidManifestOnly == (mb_pc = "built" /\ BidCalls) => mb_output = BidManifest
C26_BidBuilt == mb_pc = "built" /\ BidCalls
\* the form holds for every instruction that has an argument
C26_FormWithArguments ==
  \A i \in 1..Len(mb_builder.instructions) :
    Len(mb_builder.emitted[i].args) > 0 =>
      mb_builder.instructions[i]
        = InstructionForm(mb_builder.emitted[i].name,
                          mb_builder.emitted[i].args)

\* the global id of an NFT: resourceAddress:localId
GlobalIdOf(n) == n.resourceAddress \o ":" \o n.localId

\* positions of the log at which the container was cleared, or the global
\* id was deleted from it
Removals(container, gid) ==
  {i \in 1..Len(nft_log) :
     /\ nft_log[i].container = container
     /\ \/ nft_log[i].op = "clear"
        \/ nft_log[i].op = "delete" /\ GlobalIdOf(nft_log[i].nft) = gid}

\* an NFT of that global id was added after the last delete of the global
\* id and after the last clear
AddedSince(container, gid) ==
  \E i \in 1..Len(nft_log) :
    /\ nft_log[i].container = container
    /\ nft_log[i].op = "add"
    /\ GlobalIdOf(nft_log[i].nft) = gid
    /\ \A j \in Removals(container, gid) : j < i

\* the global ids present in the container according to the log
PresentIds(container) ==
  {GlobalIdOf(n) : n \in {m \in NFTs : AddedSince(container, GlobalIdOf(m))}}

\* C27: equals compares global ids; after any add/set, delete and clear on
\* an NFTSet or NFTMap, has(n) holds exactly if an NFT of n's global id was
\* added after the last delete of that global id and the last clear, and
\* size() is the number of distinct global ids present.
C27_IdentityByGlobalId ==
  /\ \A a \in NFTs, b \in NFTs :
       equals(a, b) <=> (GlobalIdOf(a) = GlobalIdOf(b))
  /\ nft_pc # "idle" =>
       /\ \A n \in NFTs :
            /\ SetHas(nft_set, n) <=> AddedSince("set", GlobalIdOf(n))
            /\ MapHas(nft_map, n) <=> AddedSince("map", GlobalIdOf(n))
       /\ SetSize(nft_set) = Cardinality(PresentIds("set"))
       /\ MapSize(nft_map) = Cardinality(PresentIds("map"))

\* a:b:c was added as ("a", "b:c"), deleted as ("a:b", "c"), and a:c added
C27_Witness ==
  /\ Len(nft_log) = 3
  /\ nft_log[1] = [container |-> "set", op |-> "add", nft |-> NFT("a", "b:c")]
  /\ nft_log[2] = [container |-> "set", op |-> "delete",
                   nft |-> NFT("a:b", "c")]
  /\ nft_log[3] = [container |-> "set", op |-> "add", nft |-> NFT("a", "c")]
  /\ ~SetHas(nft_set, NFT("a", "b:c"))
  /\ SetHas(nft_set, NFT("a", "c"))
  /\ SetSize(nft_set) = 1

\* the map holds two keys after three sets, two of them on one global id
C27_MapWitness ==
  /\ Len(nft_log) = 3
  /\ \A i \in 1..3 : nft_log[i].container = "map" /\ nft_log[i].op = "add"
  /\ nft_log[1].nft = NFT("a", "b:c")
  /\ nft_log[2].nft = NFT("a:b", "c")
  /\ MapSize(nft_map) = 2

\* C28: when the 60-second timer fires before the wallet interaction
\* completes, sendTransaction resolves to the timeout failure result
\* {outcome: "FAILED", message: "Transaction timed out"}, which differs from
\* the result of an unknown error.
C28_TimeoutResult ==
  wi_timed_out =>
    /\ wi_pc = "resolved"
    /\ wi_result = [outcome |-> "FAILED", message |-> "Transaction timed out"]

\* the timer fired first and sendTransaction resolved
C28_TimedOut == wi_timed_out /\ wi_pc = "resolved"

\* what the timed-out call resolves to
C28_ResolvesUnknown ==
  wi_timed_out =>
    wi_result = [outcome |-> "FAILED",
                 message |-> "Unknown error: Error: Timeout"]

\* the positions of the event list that hold the given event
EventsAt(event) == {i \in 1..Len(wml_events) : wml_events[i] = event}

\* C29: within one withMaxLoops invocation the attempts and the waits
\* alternate, starting with an attempt; no wait follows the max_loops-th
\* failed attempt; the label is logged once, on that failure and on no
\* other; the error raised is the error of that attempt.
C29_AttemptWaitOrder ==
  wml_pc # "idle" =>
    /\ \A i \in 1..Len(wml_events) :
         /\ wml_events[i] = "attempt" => i % 2 = 1
         /\ wml_events[i] = "wait" =>
              /\ i % 2 = 0
              /\ wml_events[i - 1] = "attempt"
              /\ i < Len(wml_events) => wml_events[i + 1] = "attempt"
         /\ wml_events[i] = "log" =>
              /\ i = Len(wml_events)
              /\ wml_events[i - 1] = "attempt"
              /\ wml_pc = "thrown"
    /\ Cardinality(EventsAt("attempt")) = calls
    /\ (calls >= 1 /\ loop_count = calls /\ calls = max_loops) =>
         /\ wml_pc = "thrown"
         /\ Cardinality(EventsAt("wait")) = max_loops - 1
    /\ wml_pc = "thrown" =>
         /\ Cardinality(EventsAt("log")) = 1
         /\ loop_count = max_loops
         /\ calls = max_loops
         /\ wml_error = toRunError(calls)
    /\ wml_pc # "thrown" => EventsAt("log") = {}

\* three attempts failed with two waits between them, then the log
C29_Witness ==
  /\ wml_pc = "thrown"
  /\ max_loops = 3
  /\ wml_events = <<"attempt", "wait", "attempt", "wait", "attempt", "log">>
  /\ wml_error = toRunError(3)

\* a stream page request of the call is in flight or waits to be retried
StreamRequestOpen(c) ==
  /\ call[c].method = "fullTransactionStream"
  /\ call[c].threads[0].pc \in {"running", "wait"}
  /\ call[c].threads[0].step = "stream"

\* an open page request follows a response with a cursor and carries it
FetchFollowsCursor(c) ==
  LET th == call[c].threads[0]
  IN (StreamRequestOpen(c) /\ th.served_n >= 1) =>
       /\ th.served_next # NoCursor
       /\ th.req.cursor = th.served_next

\* no page request is open once max_amount transactions are accumulated,
\* and a result that reached max_amount is cut to it
StopsAtMaxAmount(c) ==
  LET th == call[c].threads[0]
      max_amount == call[c].max_amount.value
  IN /\ (StreamRequestOpen(c) /\ th.served_n >= 1) =>
          Len(call[c].full_stream) < max_amount
     /\ call[c].status = "resolved" =>
          /\ Len(call[c].value) <= max_amount
          /\ Len(call[c].full_stream) >= max_amount =>
               call[c].value = SubSeq(call[c].full_stream, 1, max_amount)

\* C30: fullTransactionStream has no stream page request open once the
\* accumulated CommittedSuccess transactions have reached the max_amount it
\* was given, nor once a response carried no cursor; when the last page
\* overshoots max_amount the surplus is cut off.
C30_NoFetchPastNeed ==
  \A c \in Calls :
    call[c].method = "fullTransactionStream" =>
      /\ FetchFollowsCursor(c)
      /\ call[c].max_amount.given => StopsAtMaxAmount(c)

\* the same for a max_amount of 1 or more
C30_PositiveCapNoFetchPastNeed ==
  \A c \in Calls :
    call[c].method = "fullTransactionStream" =>
      /\ FetchFollowsCursor(c)
      /\ (call[c].max_amount.given /\ call[c].max_amount.value >= 1) =>
           StopsAtMaxAmount(c)

\* a call with max_amount 0 asks for a further page with transactions
\* accumulated
C30_ZeroFetchesOn ==
  \E c \in Calls :
    /\ call[c].max_amount = Given(0)
    /\ StreamRequestOpen(c)
    /\ call[c].threads[0].served_n >= 1
    /\ Len(call[c].full_stream) >= 1

\* the cap was passed by the last page while the stream had more pages: the
\* call stopped there and cut the surplus
C30_Witness ==
  \E c \in Calls :
    /\ call[c].method = "fullTransactionStream"
    /\ call[c].status = "resolved"
    /\ call[c].max_amount = Given(2)
    /\ call[c].threads[0].served_next # NoCursor
    /\ call[c].threads[0].served_n >= 2
    /\ Len(call[c].full_stream) = 3
    /\ Len(call[c].value) = 2

\* an uncapped call read the stream to its end, page by page
C30_ExhaustedWitness ==
  \E c \in Calls :
    /\ call[c].method = "fullTransactionStream"
    /\ call[c].status = "resolved"
    /\ call[c].max_amount = Omitted
    /\ call[c].threads[0].served_next = NoCursor
    /\ call[c].threads[0].served_n >= 2
    /\ call[c].value = SuccessfulFrom(call[c])

\* how often every id of a list occurs in it
CountsOf(ids) == Tally(EmptyMap, ids)

\* how often every id was handed to the call for a resource, inlined in a
\* vault entry or on a follow-up page
ReceivedFor(cr, resource_address) ==
  IF resource_address \in DOMAIN cr.received
  THEN cr.received[resource_address] ELSE EmptyMap

\* the ids getNonFungibleIdsHeldBy returns are the ids it received
C31_IdsHeldByAccumulates ==
  \A c \in Calls :
    (call[c].method = "getNonFungibleIdsHeldBy"
     /\ call[c].status = "resolved") =>
      CountsOf(call[c].value) = ReceivedFor(call[c], call[c].resource)

\* C31: the ids returned by getNonFungibleIdsHeldBy, and per address by
\* getNonFungibleResourcesHeldBy, are exactly the ids inlined in the vault
\* entries and the ids of every follow-up page fetched, each as often as it
\* was received.
C31_IdsAccumulated ==
  /\ C31_IdsHeldByAccumulates
  /\ \A c \in Calls :
       (call[c].method = "getNonFungibleResourcesHeldBy"
        /\ call[c].status = "resolved") =>
         \A i \in 1..Len(call[c].value) :
           CountsOf(call[c].value[i].ids_held)
             = ReceivedFor(call[c], call[c].value[i].address)

\* the same for entities whose collection items have different addresses
C31_DistinctAddresses ==
  \A c \in Calls :
    (call[c].method = "getNonFungibleResourcesHeldBy"
     /\ call[c].status = "resolved"
     /\ gateway.resource_of = <<"r1", "r2", "r3">>) =>
      \A i \in 1..Len(call[c].value) :
        CountsOf(call[c].value[i].ids_held)
          = ReceivedFor(call[c], call[c].value[i].address)

\* ids of a resource were received on inlined and follow-up pages and
\* returned by getNonFungibleIdsHeldBy
C31_IdsHeldByReturned ==
  \E c \in Calls :
    /\ call[c].method = "getNonFungibleIdsHeldBy"
    /\ call[c].status = "resolved"
    /\ call[c].threads[0].served_n >= 2
    /\ Len(call[c].value) >= 2

\* C32: every request helper goes through withMaxLoops with this._maxLoops,
\* so a request is attempted at least once and at most maxLoops times; the
\* cap is 30 and the concurrency limit 10 when the constructor is given no
\* value or zero; neither value changes after construction.
C32_RequestsCapped ==
  /\ [](gp_pc # "idle" =>
          /\ gp_maxLoops
               = (IF gp_args.maxLoops.given /\ gp_args.maxLoops.value # 0
                  THEN gp_args.maxLoops.value ELSE 30)
          /\ gp_concurrencyLimit
               = (IF gp_args.concurrencyLimit.given
                     /\ gp_args.concurrencyLimit.value # 0
                  THEN gp_args.concurrencyLimit.value ELSE 10)
          /\ gp_attempts >= 1 => gp_attempts <= gp_maxLoops
          /\ gp_pc \in {"returned", "thrown", "wait"} => gp_attempts >= 1
          /\ gp_pc = "thrown" => gp_attempts = gp_maxLoops)
  /\ [][gp_pc # "idle" =>
          /\ gp_maxLoops' = gp_maxLoops
          /\ gp_concurrencyLimit' = gp_concurrencyLimit]_vars

\* the same with the attempts capped only for a cap of at least 1
C32_CappedWhenPositive ==
  /\ [](gp_pc # "idle" =>
          /\ gp_maxLoops
               = (IF gp_args.maxLoops.given /\ gp_args.maxLoops.value # 0
                  THEN gp_args.maxLoops.value ELSE 30)
          /\ gp_concurrencyLimit
               = (IF gp_args.concurrencyLimit.given
                     /\ gp_args.concurrencyLimit.value # 0
                  THEN gp_args.concurrencyLimit.value ELSE 10)
          /\ gp_maxLoops >= 1 => gp_attempts <= gp_maxLoops
          /\ gp_pc \in {"returned", "thrown", "wait"} => gp_attempts >= 1
          /\ gp_pc = "thrown" => gp_attempts = gp_maxLoops)
  /\ [][gp_pc # "idle" =>
          /\ gp_maxLoops' = gp_maxLoops
          /\ gp_concurrencyLimit' = gp_concurrencyLimit]_vars

\* a processor built without arguments gave up a request after 30 attempts
C32_DefaultCapReached ==
  /\ gp_pc = "thrown"
  /\ ~gp_args.maxLoops.given
  /\ gp_attempts = 30

RECURSIVE LeavesJoined(_, _)
\* the values of a list of leaves from the i-th on, with ", " between two
LeavesJoined(fields, i) ==
  IF i > Len(fields) THEN ""
  ELSE fields[i].value \o (IF i < Len(fields) THEN ", " ELSE "")
         \o LeavesJoined(fields, i + 1)

\* C33: parseNonFungibleData on an Enum node whose type name is not
\* "Option" renders the variant name followed by the comma-joined field
\* renderings in parentheses, and the variant name alone when the enum has
\* no fields.
C33_EnumRendering ==
  parser_pc = "done" =>
    \A k \in 1..2 :
      LET data == parser_in[k]
      IN (data.kind = "Enum" /\ data.type_name # "Option") =>
           parser_out[k].value
             = (IF Len(data.fields) = 0 THEN data.variant_name
                ELSE data.variant_name \o "("
                       \o LeavesJoined(data.fields, 1) \o ")")

\* a variant without fields and one with two fields were rendered
C33_Witness ==
  /\ parser_pc = "done"
  /\ parser_in[1] = EnumNode("Planet", "Mars", <<>>)
  /\ parser_out[1].value = "Mars"
  /\ parser_in[2] = EnumNode("Planet", "Mars",
                             <<StringNode("foo"), U8Node("5")>>)
  /\ parser_out[2].value = "Mars(foo, 5)"

\* the address, symbol, description and icon of every FungibleResource are
\* those of the information read for the same resource
C34_OtherFieldsJoined ==
  \A c \in Calls :
    (call[c].method = "getFungibleResourcesHeldBy"
     /\ call[c].status = "resolved") =>
      \A i \in 1..Len(call[c].value) :
        LET held == call[c].value[i]
        IN /\ held.address \in DOMAIN call[c].resource_map
           /\ held.address = call[c].resource_map[held.address].address
           /\ held.symbol = call[c].resource_map[held.address].symbol
           /\ held.description
                = call[c].resource_map[held.address].description
           /\ held.icon = call[c].resource_map[held.address].icon

\* C34: every FungibleResource returned by getFungibleResourcesHeldBy
\* carries the resolved name of its resource, and the address, symbol,
\* description and icon of the same resource.
C34_JoinedWithMetadata ==
  /\ C34_OtherFieldsJoined
  /\ \A c \in Calls :
       (call[c].method = "getFungibleResourcesHeldBy"
        /\ call[c].status = "resolved") =>
         \A i \in 1..Len(call[c].value) :
           LET held == call[c].value[i]
           IN /\ HasResolvableName(held.address)
              /\ held.name = call[c].resource_map[held.address].name

\* what the name of every returned FungibleResource is
C34_NameIsAddress ==
  \A c \in Calls :
    (call[c].method = "getFungibleResourcesHeldBy"
     /\ call[c].status = "resolved") =>
      \A i \in 1..Len(call[c].value) :
        /\ call[c].value[i].name = call[c].value[i].address
        /\ call[c].value[i].name
             # call[c].resource_map[call[c].value[i].address].name

\* the state-change option the caller asked for: false when left out
AskedStateChanges(cr) ==
  IF cr.receipt_state_changes = "true" THEN "true" ELSE "false"

\* every page request with a filter carries the filter, and every page
\* request without one carries the caller's state-change option
C35_FilterAndUnfilteredOption ==
  \A c \in Calls :
    StreamRequestOpen(c) =>
      LET req == call[c].threads[0].req
      IN /\ req.endpoint = "streamTransactions"
         /\ req.filter = call[c].entity_filter
         /\ ~call[c].entity_filter.given =>
              req.receipt_state_changes = AskedStateChanges(call[c])

\* C35: every page request of fullTransactionStream carries the caller's
\* state-change option (false when omitted), with an entity filter and
\* without one, and every request with a filter carries that filter.
C35_RequestsCarryOptions ==
  /\ C35_FilterAndUnfilteredOption
  /\ \A c \in Calls :
       StreamRequestOpen(c) =>
         call[c].threads[0].req.receipt_state_changes
           = AskedStateChanges(call[c])

\* a filtered request never carries a state-change option
C35_FilteredWithoutOption ==
  \A c \in Calls :
    (StreamRequestOpen(c) /\ call[c].entity_filter.given) =>
      call[c].threads[0].req.receipt_state_changes = Undefined

\* a TransactionTimeoutError is the only error reported as a timeout
C36_OnlyTimeoutErrorsTimeOut ==
  (wi_pc = "resolved" /\ wi_result.message = "Transaction timed out") =>
    wi_caught.class = "TransactionTimeoutError"

\* C36: a ManifestError raised during sendTransaction is reported as
\* {outcome: "FAILED", message: "Manifest error: " + its message}, never as
\* the timeout and never as the unknown-error result; a
\* TransactionTimeoutError is the only error reported as "Transaction timed
\* out".
C36_ManifestErrorReported ==
  /\ wi_caught.class = "ManifestError" =>
       /\ wi_pc = "resolved"
       /\ wi_result = [outcome |-> "FAILED",
                       message |-> "Manifest error: " \o wi_caught.message]
  /\ C36_OnlyTimeoutErrorsTimeOut

\* what a caught ManifestError is reported as
C36_ManifestErrorTimesOut ==
  wi_caught.class = "ManifestError" =>
    wi_result = [outcome |-> "FAILED", message |-> "Transaction timed out"]

\* a TransactionTimeoutError is reported as a timeout
C36_TimeoutErrorTimesOut ==
  wi_caught.class = "TransactionTimeoutError" =>
    wi_result = [outcome |-> "FAILED", message |-> "Transaction timed out"]

C36_ManifestErrorCaught == wi_caught.class = "ManifestError"

\* both caches are empty
CachesEmpty == wc_fungibles = EmptyMap /\ wc_nonFungibles = EmptyMap

\* the fungible cache was written in this step, with the holdings of the
\* given account
FungiblesFilledFor(account) ==
  /\ wc_fungibles' # wc_fungibles
  /\ wc_fungibles' = FungiblesHeldBy(account)

\* an entry of the non-fungible cache was written in this step, with the
\* holdings of the given account
NonFungiblesFilledFor(account) ==
  \E resource \in DOMAIN wc_nonFungibles' :
    /\ \/ resource \notin DOMAIN wc_nonFungibles
       \/ wc_nonFungibles'[resource] # wc_nonFungibles[resource]
    /\ wc_nonFungibles'[resource] =
         NonFungibleItems(resource, NonFungibleIdsHeldBy(account, resource))
    /\ NonFungibleIdsHeldBy(account, resource) # {}

\* C37: whenever no account is connected the fungible and the non-fungible
\* cache are empty, also when an updateTokens or updateNonFungible call
\* started before the disconnect completes after it; a cache is never
\* filled with holdings fetched for an account other than the current one.
C37_CachesDescribeAccount ==
  /\ [](wc_account = NoAccount => CachesEmpty)
  /\ [][\A account \in Accounts :
          FungiblesFilledFor(account) \/ NonFungiblesFilledFor(account) =>
            wc_account' = account]_vars

\* the handler of an empty account list leaves both caches empty
C37_ClearedByHandler ==
  [][wc_events' # wc_events /\ wc_account' = NoAccount =>
       wc_fungibles' = EmptyMap /\ wc_nonFungibles' = EmptyMap]_vars

\* without a fetch in flight the caches of a disconnected wallet stay empty
C37_EmptyWithoutFetch ==
  [][wc_account = NoAccount /\ CachesEmpty /\ wc_pending = {} =>
       wc_account' # NoAccount \/
         (wc_fungibles' = EmptyMap /\ wc_nonFungibles' = EmptyMap)]_vars

\* a cache is filled while no account is connected
C37_FilledWhileDisconnected ==
  wc_account = NoAccount /\ wc_events >= 1 /\ ~CachesEmpty

\* the NFTs added to the container and neither deleted nor cleared since
AddedNfts(container) ==
  {nft_log[i].nft :
     i \in {j \in 1..Len(nft_log) :
              /\ nft_log[j].container = container
              /\ nft_log[j].op = "add"
              /\ \A k \in Removals(container, GlobalIdOf(nft_log[j].nft)) :
                   k < j}}

\* neither the address nor the local id holds the separator
WithoutSeparator(n) ==
  IndexOf(n.resourceAddress, ":") = 0 /\ IndexOf(n.localId, ":") = 0

\* the NFTs of the pairs NFTMap.toArray returned
KeysOf(pairs) == {pair[1] : pair \in pairs}

\* C38: for every NFT n, NFT.fromGlobalId(n.globalId()) has the address
\* and the local id of n, so toArray and forEach of NFTSet and NFTMap hand
\* back NFTs with the address and local id of the ones that were added.
C38_GlobalIdRoundTrips ==
  /\ \A n \in AddedNfts("set") \cup AddedNfts("map") :
       /\ fromGlobalId(globalId(n)).kind = "returned"
       /\ fromGlobalId(globalId(n)).nft.resourceAddress = n.resourceAddress
       /\ fromGlobalId(globalId(n)).nft.localId = n.localId
  /\ nft_call.op = "NFTSet.toArray" =>
       nft_call.output = AddedNfts("set")
  /\ nft_call.op = "NFTMap.toArray" =>
       KeysOf(nft_call.output) = AddedNfts("map")

\* the round trip of the NFTs whose address and local id have no ':'
C38_RoundTripWithoutSeparator ==
  /\ \A n \in AddedNfts("set") \cup AddedNfts("map") :
       WithoutSeparator(n) =>
         fromGlobalId(globalId(n)) = [kind |-> "returned", nft |-> n]
  /\ nft_call.op = "NFTSet.toArray" =>
       \A n \in AddedNfts("set") :
         WithoutSeparator(n) => n \in nft_call.output
  /\ nft_call.op = "NFTMap.toArray" =>
       \A n \in AddedNfts("map") :
         WithoutSeparator(n) => n \in KeysOf(nft_call.output)

\* ("a", "b:c") was added alone, and ("a", "b") is handed back
C38_LocalIdCut ==
  /\ nft_call.op = "NFTSet.toArray"
  /\ AddedNfts("set") = {NFT("a", "b:c")}
  /\ nft_call.output = {NFT("a", "b")}

\* C39: NFT.fromGlobalId raises "The Global Id input doesn't have the right
\* format!" for every string that is not of the form
\* resourceAddress:localId, such as a string without ':', and never returns
\* an NFT whose address or local id is missing.
C39_MalformedRaises ==
  nft_call.op = "fromGlobalId" =>
    /\ IndexOf(nft_call.input, ":") = 0 =>
         nft_call.output =
           [kind |-> "thrown",
            message |-> "The Global Id input doesn't have the right format!"]
    /\ nft_call.output.kind = "returned" =>
         /\ nft_call.output.nft.resourceAddress # Undefined
         /\ nft_call.output.nft.localId # Undefined

\* fromGlobalId returns an NFT for every string
C39_AlwaysReturns ==
  nft_call.op = "fromGlobalId" => nft_call.output.kind = "returned"

\* a string without ':' gives an NFT without local id
C39_LocalIdMissing ==
  /\ nft_call.op = "fromGlobalId"
  /\ nft_call.input = "a"
  /\ nft_call.output = [kind |-> "returned", nft |-> NFT("a", Undefined)]

\* C40: the address toNonFungibles() returns is the resource address of
\* the NFT, and the ids list is exactly [localId()].
C40_SameItem ==
  nft_call.op = "toNonFungibles" =>
    /\ nft_call.output.address = nft_call.input.resourceAddress
    /\ nft_call.output.ids = <<nft_call.input.localId>>

\* the address toNonFungibles() returns is the local id
C40_AddressIsLocalId ==
  nft_call.op = "toNonFungibles" =>
    /\ nft_call.output.address = nft_call.input.localId
    /\ nft_call.output.ids = <<nft_call.input.localId>>

\* toNonFungibles() of ("a", "c") returned the address "c"
C40_LocalIdAsAddress ==
  /\ nft_call.op = "toNonFungibles"
  /\ nft_call.input = NFT("a", "c")
  /\ nft_call.output = [address |-> "c", ids |-> <<"c">>]
====
